---- MODULE Spec2Model ----
(***************************************************************************)
(* Model of the real-time audio streaming clients of Vocode-Backend:       *)
(*   apps/client_backend/clients/websocket_client_with_audio.py  "clients" *)
(*   apps/client_backend/websocket_client_with_audio.py          "root"    *)
(*   apps/client_backend/websocket_client_example.py             "example" *)
(* and of the playback worker of quickstarts/stream-conversation.py.       *)
(*                                                                         *)
(* Concurrency domains: the asyncio event-loop thread (the main coroutine, *)
(* the send_audio and receive_messages tasks), the default executor thread *)
(* that runs the blocking Queue.get of send_audio, and the two PortAudio   *)
(* callback threads (audio_callback, output_callback).  Each queue.Queue   *)
(* operation is atomic (it runs under the queue's mutex); everything       *)
(* between two queue operations of a thread can interleave with the other  *)
(* threads.  Tasks of the event loop interleave only at their awaits.      *)
(* A stop request is the interrupt that asyncio.run turns into the         *)
(* cancellation of the main task, delivered at its await.                  *)
(***************************************************************************)
EXTENDS Integers, Sequences, FiniteSets, TLC

\* ---------------------------------------------------------------- bounds
\* Longest byte string of the loopback of an audio envelope.
MaxBytes == 3
\* Chunks handed to the quickstart playback worker after its construction.
MaxChunks == 2
\* Capacity of both queues in the model (the program's 50 and 10, scaled).
MaxQueue == 2
\* Number of external events in a run: blocks the capture device delivers
\* plus messages the remote endpoint sends after the ready message.
MaxEvents == 3
\* Number of frames the playback device asks for per callback (scaled).
MaxFrames == 4
\* Largest input length (in samples) the resampling length is checked for.
MaxSamples == 12

\* ------------------------------------------------------ program constants
SERVER_SAMPLING_RATE == 16000
OUTPUT_SAMPLING_RATE == 44100
CHUNK_SIZE == 4096
INPUT_QUEUE_SIZE == 50
OUTPUT_QUEUE_SIZE == 50
BLOCKSIZE_MULTIPLIER == 2
ROOT_QUEUE_SIZE == 10

BASE == "websocket_base"
START == "websocket_start"
AUDIO == "websocket_audio"
TRANSCRIPT == "websocket_transcript"
READY == "websocket_ready"
STOP == "websocket_stop"
AUDIO_CONFIG_START == "websocket_audio_config_start"

Variants == {"clients", "root", "example"}

Min(a, b) == IF a < b THEN a ELSE b

\* Queue(maxsize=...) of each variant, capped by the model's bound.
InputCap(v) == Min(IF v = "clients" THEN INPUT_QUEUE_SIZE ELSE ROOT_QUEUE_SIZE, MaxQueue)
OutputCap(v) == Min(IF v = "clients" THEN OUTPUT_QUEUE_SIZE ELSE ROOT_QUEUE_SIZE, MaxQueue)

\* CHUNK_DURATION = CHUNK_SIZE / (SERVER_SAMPLING_RATE * 2), kept as a
\* fraction: int(rate * CHUNK_DURATION * mult) = (rate * CHUNK_SIZE * mult) \div (SERVER_SAMPLING_RATE * 2)
Blocksize(rate, mult) == (rate * CHUNK_SIZE * mult) \div (SERVER_SAMPLING_RATE * 2)

\* blocksize of the output stream = frames of every output_callback call.
OutputBlocksize(v) == Blocksize(OUTPUT_SAMPLING_RATE, IF v = "clients" THEN BLOCKSIZE_MULTIPLIER ELSE 1)
Frames(v) == Min(OutputBlocksize(v), MaxFrames)

\* blocksize of the input stream = frames of every audio_callback call
\* (the root variant has no multiplier), and the length of
\* indata.tobytes(): one int16 channel, two bytes a frame.
InputBlocksize(v) == Blocksize(SERVER_SAMPLING_RATE, IF v = "clients" THEN BLOCKSIZE_MULTIPLIER ELSE 1)
CaptureChunkBytes(v) == InputBlocksize(v) * 2

\* ------------------------------------------------------------- base64
\* Text is a sequence of alphabet indices 0..63; 64 stands for the pad '='.
Pad == 64

RECURSIVE b64encode(_)
b64encode(b) ==
  IF Len(b) = 0 THEN <<>>
  ELSE IF Len(b) = 1 THEN
    << b[1] \div 4, (b[1] % 4) * 16, Pad, Pad >>
  ELSE IF Len(b) = 2 THEN
    << b[1] \div 4, (b[1] % 4) * 16 + (b[2] \div 16), (b[2] % 16) * 4, Pad >>
  ELSE
    << b[1] \div 4, (b[1] % 4) * 16 + (b[2] \div 16),
       (b[2] % 16) * 4 + (b[3] \div 64), b[3] % 64 >>
    \o b64encode(SubSeq(b, 4, Len(b)))

\* A decoder that takes the padding for data.
DecodeGroupNoPad(g) ==
  << g[1] * 4 + (g[2] \div 16),
     ((g[2] % 16) * 16 + (g[3] \div 4)) % 256,
     ((g[3] % 4) * 64 + g[4]) % 256 >>

\* One group of four characters to its bytes.
DecodeGroup(g) ==
  LET b1 == g[1] * 4 + (g[2] \div 16)
      b2 == (g[2] % 16) * 16 + (g[3] \div 4)
      b3 == (g[3] % 4) * 64 + g[4]
  IN IF g[3] = Pad THEN << b1 >>
     ELSE IF g[4] = Pad THEN << b1, b2 >>
     ELSE << b1, b2, b3 >>

\* Whether t is decodable: whole groups, padding only at the very end.
B64Valid(t) ==
  /\ Len(t) % 4 = 0
  /\ \A i \in 1..Len(t) :
       t[i] = Pad => /\ i >= Len(t) - 1
                     /\ (i = Len(t) - 1 => t[Len(t)] = Pad)

RECURSIVE DecodeGroups(_)
DecodeGroups(t) ==
  IF Len(t) = 0 THEN <<>>
  ELSE DecodeGroup(SubSeq(t, 1, 4)) \o DecodeGroups(SubSeq(t, 5, Len(t)))

\* base64.b64decode: the bytes, or the binascii.Error it raises.
b64decode(t) ==
  IF B64Valid(t) THEN [ok |-> TRUE, bytes |-> DecodeGroups(t)]
  ELSE [ok |-> FALSE, bytes |-> <<>>]

\* ------------------------------------------------------------ messages
\* What json.dumps writes, as the object it encodes.
start_message ==
  [type |-> AUDIO_CONFIG_START,
   input_audio_config |-> [sampling_rate |-> SERVER_SAMPLING_RATE,
                           audio_encoding |-> "linear16",
                           chunk_size |-> CHUNK_SIZE],
   output_audio_config |-> [sampling_rate |-> SERVER_SAMPLING_RATE,
                            audio_encoding |-> "linear16"],
   conversation_id |-> "None",
   subscribe_transcript |-> TRUE]

\* An audio message that carries the bytes without encoding them.
audio_message_raw(audio_bytes) == [type |-> AUDIO, data |-> audio_bytes]

audio_message(audio_bytes) == [type |-> AUDIO, data |-> b64encode(audio_bytes)]

stop_message == [type |-> STOP]

\* indata.tobytes() of the k-th block the capture device delivers (scaled to
\* a few bytes; the three lengths exercise every base64 padding).
BlockBytes(k) ==
  CASE k % 3 = 1 -> <<77, 97, 110>>
    [] k % 3 = 2 -> <<255, 0>>
    [] OTHER -> <<128>>

\* PCM payloads the endpoint sends: one sample, two samples, and an odd
\* number of bytes (an audio message without data gives the empty payload).
InboundData == { <<1, 0>>, <<0, 128, 255, 127>>, <<7, 0, 9>> }

\* A base64 text that cannot be decoded.
BadText == << 19 >>

\* Inbound wire messages: json is what json.loads makes of the text, type
\* the "type" member ("None" when absent), data the "data" member.
Obj(t, has, d) == [json |-> "object", type |-> t, has_data |-> has, data |-> d]
Plain(t) == Obj(t, FALSE, <<>>)
AudioMsgs == { Obj(AUDIO, TRUE, b64encode(d)) : d \in InboundData }
              \cup { Obj(AUDIO, TRUE, BadText), Plain(AUDIO) }
OtherMsgs == { Plain(TRANSCRIPT), Plain(READY), Plain(BASE), Plain("None"),
               [json |-> "array", type |-> "None", has_data |-> FALSE, data |-> <<>>],
               [json |-> "invalid", type |-> "None", has_data |-> FALSE, data |-> <<>>] }
Messages == AudioMsgs \cup OtherMsgs
\* The first inbound message: one of each kind is enough.
FirstMessages == OtherMsgs \cup { Obj(AUDIO, TRUE, b64encode(<<1, 0>>)) }

\* json.loads(message) followed by data.get("type"): the type, or the
\* exception (JSONDecodeError, AttributeError) as "raise".
GetType(m) == IF m.json = "object" THEN m.type ELSE "raise"

\* data.get("data", "")
GetData(m) == IF m.has_data THEN m.data ELSE <<>>

\* ---------------------------------------------------------- queue.Queue
NoChunk == [id |-> 0, data |-> <<>>]

\* A put_nowait that ignores maxsize (a Queue built without it).
put_nowait_unbounded(q, item, maxsize) == [full |-> FALSE, q |-> Append(q, item)]

\* put_nowait: the new content, or Full.
put_nowait(q, item, maxsize) ==
  IF Len(q) < maxsize THEN [full |-> FALSE, q |-> Append(q, item)]
  ELSE [full |-> TRUE, q |-> q]

\* A get_nowait that takes the newest item (a LifoQueue).
get_nowait_lifo(q) ==
  IF Len(q) > 0
    THEN [empty |-> FALSE, item |-> q[Len(q)], q |-> SubSeq(q, 1, Len(q) - 1)]
    ELSE [empty |-> TRUE, item |-> NoChunk, q |-> q]

\* get_nowait / get(timeout): the item and the new content, or Empty.
get_nowait(q) ==
  IF Len(q) > 0 THEN [empty |-> FALSE, item |-> Head(q), q |-> Tail(q)]
  ELSE [empty |-> TRUE, item |-> NoChunk, q |-> q]

VARIABLES
  variant,            \* which client runs
  mainPc,             \* position of the main coroutine
  chan,               \* the websocket: none, open, remote_closed, closed
  sent,               \* messages written to the channel, in order
  ready_data,         \* type of the first inbound message ("none" before it)
  streaming_active,   \* the asyncio.Event
  input_stream,       \* none, created, active, aborted, stopped, closed
  output_stream,      \* none, created, active, aborted, stopped, closed
  audio_input_queue,
  audio_output_queue,
  capPc,              \* audio_callback: idle, put, evict, reput
  capChunk,           \* audio_bytes of the running audio_callback
  nCaptured,          \* blocks delivered by the capture device so far
  outPc,              \* output_callback: idle, get, collect
  audio_chunks,       \* sample counts of the chunks the running callback collected
  outdata,            \* what the last output_callback left in the buffer
  sendPc,             \* send_audio: none, wait_get, got, done
  execSt,             \* executor thread running Queue.get: idle, waiting
  audio_bytes,        \* chunk held by send_audio
  recvPc,             \* receive_messages: none, recv, evict, reput, done
  recvChunk,          \* audio_bytes of receive_messages
  nInbound,           \* messages received after the handshake
  stopRequested,      \* history: an interrupt was delivered
  sentAtStop,         \* history: messages written when it was delivered
  pushedIn,           \* history: ids of the chunks pushed on the capture queue
  deliveredIn,        \* history: ids of the chunks taken from the capture queue
  lostIn,             \* history: ids of the chunks their own push discarded
  evictedIn,          \* history: [by, id]: push of chunk by evicted chunk id
  pushedOut,          \* the same four for the playback queue
  deliveredOut,
  lostOut,
  evictedOut,
  argv,               \* the command line has the endpoint argument
  exit_status,        \* << >> while running, << 1 >> after sys.exit(1)
  in_rate,            \* _ResamplingPlaybackWorker: self.in_rate
  out_rate,           \* self.out_rate
  sync_q,             \* self.input_janus_queue: chunks waiting
  enqueued,           \* history: every chunk given to consume_nonblocking
  stream,             \* the arrays given to self.stream.write, in order
  ended,              \* self._ended
  stream_closed,      \* self.stream.close() was called
  workerPc,           \* _run_loop: none, test, get, done, crashed
  etc_file,           \* /etc/vocode/.env: absent, readable, unreadable, directory
  script_env,         \* a .env exists in the quickstart's directory
  cwd_env,            \* a .env exists in the current directory
  env_keys,           \* the API keys are set as environment variables
  file_keys,          \* the .env files hold the API keys
  ENV_FILE,           \* the quickstart's ENV_FILE ("None" for None)
  env_file_found,
  settings_from,      \* what Settings() read: unset, env, env+file
  envPc               \* position of the quickstart's module code

mainVars == << mainPc, chan, sent, ready_data, streaming_active,
               input_stream, output_stream >>
queueVars == << audio_input_queue, audio_output_queue >>
captureVars == << capPc, capChunk, nCaptured >>
playbackVars == << outPc, audio_chunks, outdata >>
sendVars == << sendPc, execSt, audio_bytes >>
recvVars == << recvPc, recvChunk, nInbound >>
histIn == << pushedIn, deliveredIn, lostIn, evictedIn >>
histOut == << pushedOut, deliveredOut, lostOut, evictedOut >>
histVars == << stopRequested, sentAtStop, histIn, histOut >>
cliVars == << argv, exit_status >>
envVars == << etc_file, script_env, cwd_env, env_keys, file_keys, ENV_FILE,
             env_file_found, settings_from, envPc >>
workerVars == << in_rate, out_rate, sync_q, enqueued, stream, ended,
                stream_closed, workerPc >>

vars == << variant, mainVars, queueVars, captureVars, playbackVars,
           sendVars, recvVars, histVars, cliVars, workerVars, envVars >>

Unset == [status |-> "unset", audio |-> 0, zeros |-> 0]

\* The clients when the script starts: the audio clients enumerate the
\* devices first, the example goes straight to its command line.
ClientInit ==
  /\ variant \in Variants
  /\ argv \in BOOLEAN
  /\ exit_status = << >>
  /\ mainPc = IF variant = "example" THEN "argv" ELSE "query_devices"
  /\ chan = "none"
  /\ sent = <<>>
  /\ ready_data = "none"
  /\ streaming_active = FALSE
  /\ input_stream = "none"
  /\ output_stream = "none"
  /\ audio_input_queue = <<>>
  /\ audio_output_queue = <<>>
  /\ capPc = "idle"
  /\ capChunk = NoChunk
  /\ nCaptured = 0
  /\ outPc = "idle"
  /\ audio_chunks = <<>>
  /\ outdata = Unset
  /\ sendPc = "none"
  /\ execSt = "idle"
  /\ audio_bytes = NoChunk
  /\ recvPc = "none"
  /\ recvChunk = NoChunk
  /\ nInbound = 0
  /\ stopRequested = FALSE
  /\ sentAtStop = 0
  /\ pushedIn = <<>>
  /\ deliveredIn = <<>>
  /\ lostIn = {}
  /\ evictedIn = {}
  /\ pushedOut = <<>>
  /\ deliveredOut = <<>>
  /\ lostOut = {}
  /\ evictedOut = {}

\* No playback worker exists in the clients.
NoWorker ==
  /\ in_rate = SERVER_SAMPLING_RATE
  /\ out_rate = OUTPUT_SAMPLING_RATE
  /\ sync_q = << >>
  /\ enqueued = << >>
  /\ stream = << >>
  /\ ended = FALSE
  /\ stream_closed = FALSE
  /\ workerPc = "none"

\* The quickstart's module code does not run in the clients.
NoQuickstart ==
  /\ etc_file = "absent"
  /\ script_env = FALSE
  /\ cwd_env = FALSE
  /\ env_keys = FALSE
  /\ file_keys = FALSE
  /\ ENV_FILE = "None"
  /\ env_file_found = FALSE
  /\ settings_from = "unset"
  /\ envPc = "none"

Init == ClientInit /\ NoWorker /\ NoQuickstart

\* The event-loop thread is between two awaits except while
\* receive_messages is inside its drop-oldest push; nothing else of the
\* loop runs then.
LoopFree == recvPc \notin {"evict", "reput"}

\* The session state of the spec, read off the main coroutine's position.
SessionState ==
  CASE mainPc \in {"query_devices", "argv", "exited"} -> "NotStarted"
    [] mainPc = "connect" -> "Connecting"
    [] mainPc \in {"send_config", "recv_ready"} -> "AwaitingReady"
    [] mainPc \in {"open_input", "open_output", "start_input", "start_output",
                   "gather", "ex_listen"} -> "Streaming"
    [] mainPc \in {"clear", "stop_input", "stop_output", "close_input",
                   "close_output", "send_stop", "ex_stop", "exit"} -> "Draining"
    [] OTHER -> "Closed"

\* ------------------------------------------------------------ __main__
\* import sounddevice and sd.query_devices() succeed.
QueryDevices ==
  /\ mainPc = "query_devices"
  /\ mainPc' = "argv"
  /\ UNCHANGED << envVars, workerVars, variant, argv, exit_status, chan, sent, ready_data,
                  streaming_active, input_stream, output_stream, queueVars,
                  captureVars, playbackVars, sendVars, recvVars, histVars >>

\* They raise: "except Exception" prints and calls sys.exit(1).
QueryDevicesFail ==
  /\ mainPc = "query_devices"
  /\ mainPc' = "exited"
  /\ exit_status' = << 1 >>
  /\ UNCHANGED << envVars, workerVars, variant, argv, chan, sent, ready_data,
                  streaming_active, input_stream, output_stream, queueVars,
                  captureVars, playbackVars, sendVars, recvVars, histVars >>

\* A command line whose missing endpoint is replaced by a default address
\* in every client.
ParseArgvDefault ==
  /\ mainPc = "argv"
  /\ mainPc' = "connect"
  /\ UNCHANGED << envVars, workerVars, variant, argv, exit_status, chan, sent, ready_data,
                  streaming_active, input_stream, output_stream, queueVars,
                  captureVars, playbackVars, sendVars, recvVars, histVars >>

\* if len(sys.argv) > 1: asyncio.run(client(sys.argv[1])); else: the audio
\* clients print the usage and sys.exit(1), the example runs with its
\* default localhost address.
ParseArgv ==
  /\ mainPc = "argv"
  /\ IF argv \/ variant = "example"
       THEN mainPc' = "connect" /\ UNCHANGED exit_status
       ELSE mainPc' = "exited" /\ exit_status' = << 1 >>
  /\ UNCHANGED << envVars, workerVars, variant, argv, chan, sent, ready_data,
                  streaming_active, input_stream, output_stream, queueVars,
                  captureVars, playbackVars, sendVars, recvVars, histVars >>

\* ------------------------------------------------------ main coroutine
\* websockets.connect(server_url) succeeds.
ConnectOk ==
  /\ mainPc = "connect"
  /\ chan' = "open"
  /\ mainPc' = "send_config"
  /\ UNCHANGED << envVars, cliVars, workerVars, variant, sent, ready_data, streaming_active, input_stream,
                  output_stream, queueVars,
                  captureVars, playbackVars, sendVars, recvVars, histVars >>

\* A failed connect that is swallowed: the session goes on to the handshake.
ConnectFailProceeds ==
  /\ mainPc = "connect"
  /\ mainPc' = "send_config"
  /\ UNCHANGED << envVars, cliVars, workerVars, variant, chan, sent, ready_data,
                  streaming_active, input_stream, output_stream, queueVars,
                  captureVars, playbackVars, sendVars, recvVars, histVars >>

\* websockets.connect raises (InvalidURI, ConnectionRefusedError, ...): the
\* outer except prints and the coroutine returns.
ConnectFail ==
  /\ mainPc = "connect"
  /\ mainPc' = "done"
  /\ UNCHANGED << envVars, cliVars, workerVars, variant, chan, sent, ready_data, streaming_active, input_stream,
                  output_stream, queueVars,
                  captureVars, playbackVars, sendVars, recvVars, histVars >>

\* The remote endpoint closes the channel, or the network is severed.
RemoteClose ==
  /\ chan = "open"
  /\ chan' = "remote_closed"
  /\ UNCHANGED << envVars, cliVars, workerVars, variant, mainPc, sent, ready_data, streaming_active, input_stream,
                  output_stream, queueVars,
                  captureVars, playbackVars, sendVars, recvVars, histVars >>

\* await websocket.send(json.dumps(start_message))
SendConfig ==
  /\ mainPc = "send_config"
  /\ IF chan = "open"
       THEN /\ sent' = Append(sent, start_message)
            /\ mainPc' = "recv_ready"
       ELSE /\ sent' = sent
            /\ mainPc' = "exit"
  /\ UNCHANGED << envVars, cliVars, workerVars, variant, chan, ready_data, streaming_active, input_stream,
                  output_stream, queueVars,
                  captureVars, playbackVars, sendVars, recvVars, histVars >>

\* A handshake that accepts any JSON object as the acknowledgement.
AfterReadyAnyObject(v, type) ==
  IF type # "raise"
    THEN IF v = "example" THEN "ex_listen" ELSE "open_input"
    ELSE "exit"

\* Where the main coroutine goes once the first message is parsed: on to
\* streaming, or (return, or the exception of json.loads / .get) out.
AfterReady(v, type) ==
  IF type = READY
    THEN IF v = "example" THEN "ex_listen" ELSE "open_input"
    ELSE "exit"

\* ready_response = await websocket.recv(); json.loads; the READY test;
\* streaming_active.set().
RecvReady ==
  /\ mainPc = "recv_ready"
  /\ chan = "open"
  /\ \E m \in FirstMessages :
       /\ ready_data' = GetType(m)
       /\ mainPc' = AfterReady(variant, GetType(m))
       /\ streaming_active' = (AfterReady(variant, GetType(m)) = "open_input")
  /\ UNCHANGED << envVars, cliVars, workerVars, variant, chan, sent, input_stream,
                  output_stream, queueVars,
                  captureVars, playbackVars, sendVars, recvVars, histVars >>

\* websocket.recv() raises ConnectionClosed during the handshake.
RecvReadyClosed ==
  /\ mainPc = "recv_ready"
  /\ chan = "remote_closed"
  /\ mainPc' = "exit"
  /\ UNCHANGED << envVars, cliVars, workerVars, variant, chan, sent, ready_data, streaming_active, input_stream,
                  output_stream, queueVars,
                  captureVars, playbackVars, sendVars, recvVars, histVars >>

\* Leaving "async with websockets.connect(...)": the channel is closed and
\* the coroutine returns.
ExitWith ==
  /\ mainPc = "exit"
  /\ chan' = "closed"
  /\ mainPc' = "done"
  /\ UNCHANGED << envVars, cliVars, workerVars, variant, sent, ready_data, streaming_active, input_stream,
                  output_stream, queueVars,
                  captureVars, playbackVars, sendVars, recvVars, histVars >>

\* ------------------------------------------------------ device streams
\* sd.InputStream(...)
OpenInput ==
  /\ mainPc = "open_input"
  /\ input_stream' = "created"
  /\ mainPc' = "open_output"
  /\ UNCHANGED << envVars, cliVars, workerVars, variant, chan, sent, ready_data, streaming_active,
                  output_stream, queueVars,
                  captureVars, playbackVars, sendVars, recvVars, histVars >>

\* sd.OutputStream(...)
OpenOutput ==
  /\ mainPc = "open_output"
  /\ output_stream' = "created"
  /\ mainPc' = "start_input"
  /\ UNCHANGED << envVars, cliVars, workerVars, variant, chan, sent, ready_data, streaming_active,
                  input_stream, queueVars,
                  captureVars, playbackVars, sendVars, recvVars, histVars >>

\* input_stream.start()
StartInput ==
  /\ mainPc = "start_input"
  /\ input_stream' = "active"
  /\ mainPc' = "start_output"
  /\ UNCHANGED << envVars, cliVars, workerVars, variant, chan, sent, ready_data, streaming_active,
                  output_stream, queueVars,
                  captureVars, playbackVars, sendVars, recvVars, histVars >>

\* "while streaming_active.is_set()": where a loop stands after the test.
LoopTop(flag, inLoop) == IF flag THEN inLoop ELSE "done"

\* output_stream.start(); asyncio.gather then creates the two tasks and the
\* main coroutine awaits them.  Each task tests the flag and reaches its
\* first await: send_audio hands Queue.get to the executor,
\* receive_messages awaits websocket.recv().
StartOutput ==
  /\ mainPc = "start_output"
  /\ output_stream' = "active"
  /\ mainPc' = "gather"
  /\ sendPc' = LoopTop(streaming_active, "wait_get")
  /\ execSt' = IF streaming_active THEN "waiting" ELSE execSt
  /\ recvPc' = LoopTop(streaming_active, "recv")
  /\ UNCHANGED << envVars, cliVars, workerVars, variant, chan, sent, ready_data, streaming_active,
                  input_stream, queueVars,
                  captureVars, playbackVars, audio_bytes,
                  recvChunk, nInbound, histVars >>

DevicePcs == {"open_input", "open_output", "start_input", "start_output",
              "stop_input", "stop_output", "close_input", "close_output"}

\* A device call raises sd.PortAudioError: nothing of the streaming block
\* catches it, the "async with" is left and the outer except prints.
DeviceError ==
  /\ mainPc \in DevicePcs
  /\ mainPc' = "exit"
  /\ UNCHANGED << envVars, cliVars, workerVars, variant, chan, sent, ready_data, streaming_active, input_stream,
                  output_stream, queueVars,
                  captureVars, playbackVars, sendVars, recvVars, histVars >>

\* ------------------------------------------------- gather and shutdown
\* A gather whose interruption leaves the two tasks running.
EnterFinallyKeepsTasks ==
  /\ mainPc = "gather"
  /\ LoopFree
  /\ \E interrupt \in BOOLEAN :
       /\ interrupt \/ (sendPc = "done" /\ recvPc = "done")
       /\ interrupt => ~stopRequested
       /\ stopRequested' = (stopRequested \/ interrupt)
       /\ sentAtStop' = IF interrupt THEN Len(sent) ELSE sentAtStop
  /\ mainPc' = "clear"
  /\ UNCHANGED << envVars, cliVars, workerVars, variant, chan, sent, ready_data, streaming_active, input_stream,
                  output_stream, queueVars,
                  captureVars, playbackVars, sendVars,
                  recvVars, histIn, histOut >>

\* await asyncio.gather(send_audio(), receive_messages()) ends: either both
\* tasks returned, or the interrupt cancels the main task, which cancels
\* both tasks (each gets CancelledError at its await, which no handler of
\* theirs catches) and then enters the finally block.
EnterFinally ==
  /\ mainPc = "gather"
  /\ LoopFree
  /\ \E interrupt \in BOOLEAN :
       /\ interrupt \/ (sendPc = "done" /\ recvPc = "done")
       /\ interrupt => ~stopRequested
       /\ stopRequested' = (stopRequested \/ interrupt)
       /\ sentAtStop' = IF interrupt THEN Len(sent) ELSE sentAtStop
  /\ sendPc' = "done"
  /\ recvPc' = "done"
  /\ audio_bytes' = NoChunk
  /\ mainPc' = "clear"
  /\ UNCHANGED << envVars, cliVars, workerVars, variant, chan, sent, ready_data, streaming_active, input_stream,
                  output_stream, queueVars,
                  captureVars, playbackVars, execSt,
                  recvChunk, nInbound, histIn, histOut >>

\* An interrupt handler that writes the stop message wherever it arrives.
StopRequestEarlyWritesStop ==
  /\ mainPc \in {"send_config", "recv_ready", "ex_listen"}
  /\ ~stopRequested
  /\ stopRequested' = TRUE
  /\ sentAtStop' = Len(sent)
  /\ sent' = IF chan = "open" THEN Append(sent, stop_message) ELSE sent
  /\ mainPc' = "exit"
  /\ UNCHANGED << envVars, cliVars, workerVars, variant, chan, ready_data, streaming_active, input_stream,
                  output_stream, queueVars,
                  captureVars, playbackVars, sendVars, recvVars,
                  histIn, histOut >>

\* The interrupt arrives while the main coroutine awaits outside the
\* try/finally: the "async with" is left.
StopRequestEarly ==
  /\ mainPc \in {"send_config", "recv_ready", "ex_listen"}
  /\ ~stopRequested
  /\ stopRequested' = TRUE
  /\ sentAtStop' = Len(sent)
  /\ mainPc' = "exit"
  /\ UNCHANGED << envVars, cliVars, workerVars, variant, chan, sent, ready_data, streaming_active, input_stream,
                  output_stream, queueVars,
                  captureVars, playbackVars, sendVars, recvVars,
                  histIn, histOut >>

\* streaming_active.clear()
ClearFlag ==
  /\ mainPc = "clear"
  /\ streaming_active' = FALSE
  /\ mainPc' = "stop_input"
  /\ UNCHANGED << envVars, cliVars, workerVars, variant, chan, sent, ready_data, input_stream,
                  output_stream, queueVars,
                  captureVars, playbackVars, sendVars, recvVars, histVars >>

\* input_stream.stop(): returns once the running callback has returned.
StopInput ==
  /\ mainPc = "stop_input"
  /\ capPc = "idle"
  /\ input_stream' = "stopped"
  /\ mainPc' = "stop_output"
  /\ UNCHANGED << envVars, cliVars, workerVars, variant, chan, sent, ready_data, streaming_active,
                  output_stream, queueVars,
                  captureVars, playbackVars, sendVars, recvVars, histVars >>

\* output_stream.stop()
StopOutput ==
  /\ mainPc = "stop_output"
  /\ outPc = "idle"
  /\ output_stream' = "stopped"
  /\ mainPc' = "close_input"
  /\ UNCHANGED << envVars, cliVars, workerVars, variant, chan, sent, ready_data, streaming_active,
                  input_stream, queueVars,
                  captureVars, playbackVars, sendVars, recvVars, histVars >>

\* input_stream.close()
CloseInput ==
  /\ mainPc = "close_input"
  /\ input_stream' = "closed"
  /\ mainPc' = "close_output"
  /\ UNCHANGED << envVars, cliVars, workerVars, variant, chan, sent, ready_data, streaming_active,
                  output_stream, queueVars,
                  captureVars, playbackVars, sendVars, recvVars, histVars >>

\* output_stream.close()
CloseOutput ==
  /\ mainPc = "close_output"
  /\ output_stream' = "closed"
  /\ mainPc' = "send_stop"
  /\ UNCHANGED << envVars, cliVars, workerVars, variant, chan, sent, ready_data, streaming_active,
                  input_stream, queueVars,
                  captureVars, playbackVars, sendVars, recvVars, histVars >>

\* await websocket.send(json.dumps(stop_message)); on a closed channel it
\* raises ConnectionClosed and nothing is written.
SendStop ==
  /\ mainPc \in {"send_stop", "ex_stop"}
  /\ sent' = IF chan = "open" THEN Append(sent, stop_message) ELSE sent
  /\ mainPc' = "exit"
  /\ UNCHANGED << envVars, cliVars, workerVars, variant, chan, ready_data, streaming_active, input_stream,
                  output_stream, queueVars,
                  captureVars, playbackVars, sendVars, recvVars, histVars >>

\* ---------------------------------------------------- example client
\* One message of the example's receive_messages: it is printed; a text
\* json.loads or b64decode rejects raises out of the listening block.
ExRecv ==
  /\ mainPc = "ex_listen"
  /\ chan = "open"
  /\ \E m \in Messages :
       mainPc' = IF \/ GetType(m) = "raise"
                    \/ GetType(m) = AUDIO /\ ~b64decode(GetData(m)).ok
                   THEN "exit" ELSE "ex_listen"
  /\ UNCHANGED << envVars, cliVars, workerVars, variant, chan, sent, ready_data, streaming_active, input_stream,
                  output_stream, queueVars,
                  captureVars, playbackVars, sendVars, recvVars, histVars >>

\* websocket.recv() raises ConnectionClosed inside the listening window.
ExClosed ==
  /\ mainPc = "ex_listen"
  /\ chan = "remote_closed"
  /\ mainPc' = "exit"
  /\ UNCHANGED << envVars, cliVars, workerVars, variant, chan, sent, ready_data, streaming_active, input_stream,
                  output_stream, queueVars,
                  captureVars, playbackVars, sendVars, recvVars, histVars >>

\* asyncio.wait_for(..., timeout=10.0) raises TimeoutError, which is caught.
ExTimeout ==
  /\ mainPc = "ex_listen"
  /\ mainPc' = "ex_stop"
  /\ UNCHANGED << envVars, cliVars, workerVars, variant, chan, sent, ready_data, streaming_active, input_stream,
                  output_stream, queueVars,
                  captureVars, playbackVars, sendVars, recvVars, histVars >>

\* ------------------------------------------- audio_callback (capture)
\* The capture device delivers a block: the callback tests the flag and
\* converts the block to bytes.
CapInvoke ==
  /\ input_stream = "active"
  /\ capPc = "idle"
  /\ nCaptured + nInbound < MaxEvents
  /\ nCaptured' = nCaptured + 1
  /\ IF streaming_active
       THEN /\ capChunk' = [id |-> nCaptured + 1, data |-> BlockBytes(nCaptured + 1)]
            /\ capPc' = "put"
       ELSE UNCHANGED << capChunk, capPc >>
  /\ UNCHANGED << envVars, cliVars, workerVars, variant, mainVars, queueVars,
                  playbackVars, sendVars, recvVars, histVars >>

\* Overflow handling that always skips the new chunk / always evicts.
OnFullSkip(v) == "idle"
OnFullEvict(v) == "evict"

\* What follows a put_nowait that raised Full: the clients variant goes on
\* to evict the oldest chunk, the root variant passes.
OnFull(v) == IF v = "clients" THEN "evict" ELSE "idle"

\* audio_input_queue.put_nowait(audio_bytes)
CapPut ==
  /\ capPc = "put"
  /\ LET r == put_nowait(audio_input_queue, capChunk, InputCap(variant))
         next == IF r.full THEN OnFull(variant) ELSE "idle"
     IN /\ audio_input_queue' = r.q
        /\ capPc' = next
        /\ capChunk' = IF next = "idle" THEN NoChunk ELSE capChunk
        /\ lostIn' = IF r.full /\ next = "idle"
                       THEN lostIn \cup {capChunk.id} ELSE lostIn
  /\ pushedIn' = Append(pushedIn, capChunk.id)
  /\ UNCHANGED << envVars, cliVars, workerVars, variant, mainVars, audio_output_queue, nCaptured,
                  playbackVars, sendVars, recvVars,
                  stopRequested, sentAtStop, deliveredIn, evictedIn, histOut >>

\* except Full: audio_input_queue.get_nowait(); except Empty: pass
CapEvict ==
  /\ capPc = "evict"
  /\ LET g == get_nowait(audio_input_queue)
     IN /\ audio_input_queue' = g.q
        /\ capPc' = IF g.empty THEN "idle" ELSE "reput"
        /\ capChunk' = IF g.empty THEN NoChunk ELSE capChunk
        /\ lostIn' = IF g.empty THEN lostIn \cup {capChunk.id} ELSE lostIn
        /\ evictedIn' = IF g.empty THEN evictedIn
                        ELSE evictedIn \cup {[by |-> capChunk.id, id |-> g.item.id]}
  /\ UNCHANGED << envVars, cliVars, workerVars, variant, mainVars, audio_output_queue, nCaptured,
                  playbackVars, sendVars, recvVars,
                  stopRequested, sentAtStop, pushedIn, deliveredIn, histOut >>

\* The second audio_input_queue.put_nowait(audio_bytes); a Full here is
\* not caught, leaves the callback and aborts the stream.
CapReput ==
  /\ capPc = "reput"
  /\ LET r == put_nowait(audio_input_queue, capChunk, InputCap(variant))
     IN /\ audio_input_queue' = r.q
        /\ input_stream' = IF r.full THEN "aborted" ELSE input_stream
        /\ lostIn' = IF r.full THEN lostIn \cup {capChunk.id} ELSE lostIn
  /\ capPc' = "idle"
  /\ capChunk' = NoChunk
  /\ UNCHANGED << envVars, cliVars, workerVars, variant, mainPc, chan, sent, ready_data, streaming_active,
                  output_stream, audio_output_queue, nCaptured,
                  playbackVars, sendVars, recvVars,
                  stopRequested, sentAtStop, pushedIn, deliveredIn, evictedIn, histOut >>

\* ------------------------------------------ output_callback (playback)
\* np.frombuffer(audio_bytes, dtype=np.int16): an odd number of bytes
\* raises ValueError; otherwise one sample per two bytes.
FromBufferOk(bytes) == Len(bytes) % 2 = 0
NumSamples(bytes) == Len(bytes) \div 2

\* total_samples: the samples collected so far.
RECURSIVE Sum(_)
Sum(ns) == IF ns = <<>> THEN 0 ELSE Head(ns) + Sum(Tail(ns))

\* The length computation of all three resampling sites: when the rates
\* differ int(n * rateOut / rateIn), otherwise the input is used as it is.
resample_length(n, rateIn, rateOut) ==
  IF rateIn # rateOut THEN (n * rateOut) \div rateIn ELSE n

\* A length computation that rounds to the nearest integer.
num_samples_out_round(n) ==
  (2 * n * OUTPUT_SAMPLING_RATE + SERVER_SAMPLING_RATE) \div (2 * SERVER_SAMPLING_RATE)

\* A length computation with the two rates exchanged.
num_samples_out_swapped(n) == (n * SERVER_SAMPLING_RATE) \div OUTPUT_SAMPLING_RATE

\* num_samples_out = int(n * OUTPUT_SAMPLING_RATE / SERVER_SAMPLING_RATE)
num_samples_out(n) == (n * OUTPUT_SAMPLING_RATE) \div SERVER_SAMPLING_RATE

\* scipy.signal.resample raises on an empty input (no FFT of 0 points).
ResampleOk(n) == n > 0

\* The buffer after a callback: how many leading samples are audio and how
\* many following ones are zero; Unwritten when the callback raised before
\* writing.
Buffer(audio, zeros) == [status |-> "written", audio |-> audio, zeros |-> zeros]
Unwritten == [status |-> "unwritten", audio |-> 0, zeros |-> 0]
\* A silence branch that zeroes all but the last sample.
SilenceShort(frames) == Buffer(0, frames - 1)
Silence(frames) == Buffer(0, frames)

\* clients: samples_to_write = min(len(audio_array), frames); the rest zero.
ClientsFill(n, frames) ==
  IF ~ResampleOk(n) THEN Unwritten
  ELSE LET samples_to_write == Min(num_samples_out(n), frames)
       IN Buffer(samples_to_write, frames - samples_to_write)

\* root: outdata[:len(audio_array)] = audio_array.reshape(-1, 1) raises
\* ValueError when the array is longer than the buffer.
RootFill(n, frames) ==
  IF ~ResampleOk(n) \/ num_samples_out(n) > frames THEN Unwritten
  ELSE Buffer(num_samples_out(n), frames - num_samples_out(n))

\* clients, after the collecting loop: "if audio_chunks:" concatenate,
\* resample, write and pad; "else:" outdata[:] = 0.
AfterLoop(chunks, frames) ==
  IF chunks # <<>> THEN ClientsFill(Sum(chunks), frames) ELSE Silence(frames)

\* while total_samples < frames and not audio_output_queue.empty()
LoopCondition(chunks, frames, q) == Sum(chunks) < frames /\ Len(q) > 0

\* clients: the loop condition is tested (at the start of the callback with
\* nothing collected, later with what was collected).  When it holds the
\* callback goes on to get_nowait; otherwise it fills the buffer and returns
\* (an exception while filling aborts the stream).
OutTest ==
  /\ variant = "clients"
  /\ \/ outPc = "idle" /\ output_stream = "active"
     \/ outPc = "collect"
  /\ IF LoopCondition(audio_chunks, Frames(variant), audio_output_queue)
       THEN /\ outPc' = "get"
            /\ UNCHANGED << audio_chunks, outdata, output_stream >>
       ELSE /\ outPc' = "idle"
            /\ audio_chunks' = <<>>
            /\ outdata' = AfterLoop(audio_chunks, Frames(variant))
            /\ output_stream' = IF AfterLoop(audio_chunks, Frames(variant)) = Unwritten
                                  THEN "aborted" ELSE output_stream
  /\ UNCHANGED << envVars, cliVars, workerVars, variant, mainPc, chan, sent, ready_data, streaming_active,
                  input_stream, queueVars,
                  captureVars, sendVars, recvVars, histVars >>

\* clients: audio_output_queue.get_nowait() and np.frombuffer inside the
\* loop; Empty breaks the loop, a ValueError leaves the callback.
OutGet ==
  /\ outPc = "get"
  /\ LET g == get_nowait(audio_output_queue)
         bad == ~g.empty /\ ~FromBufferOk(g.item.data)
         after == AfterLoop(audio_chunks, Frames(variant))
     IN /\ audio_output_queue' = g.q
        /\ deliveredOut' = IF g.empty THEN deliveredOut
                           ELSE Append(deliveredOut, g.item.id)
        /\ IF bad
             THEN /\ outPc' = "idle"
                  /\ audio_chunks' = <<>>
                  /\ outdata' = Unwritten
                  /\ output_stream' = "aborted"
           ELSE IF g.empty
             THEN /\ outPc' = "idle"
                  /\ audio_chunks' = <<>>
                  /\ outdata' = after
                  /\ output_stream' = IF after = Unwritten THEN "aborted"
                                      ELSE output_stream
           ELSE /\ outPc' = "collect"
                /\ audio_chunks' = Append(audio_chunks, NumSamples(g.item.data))
                /\ UNCHANGED << outdata, output_stream >>
  /\ UNCHANGED << envVars, cliVars, workerVars, variant, mainPc, chan, sent, ready_data, streaming_active,
                  input_stream, audio_input_queue, captureVars, sendVars, recvVars,
                  stopRequested, sentAtStop, histIn, pushedOut, lostOut, evictedOut >>

\* root: the whole callback: get_nowait, frombuffer, resample, write and
\* pad; Empty writes silence; any other exception aborts the stream.
RootOutputCallback ==
  /\ variant = "root"
  /\ output_stream = "active"
  /\ outPc = "idle"
  /\ LET g == get_nowait(audio_output_queue)
         fill == IF g.empty THEN Silence(Frames(variant))
                 ELSE IF ~FromBufferOk(g.item.data) THEN Unwritten
                 ELSE RootFill(NumSamples(g.item.data), Frames(variant))
     IN /\ audio_output_queue' = g.q
        /\ deliveredOut' = IF g.empty THEN deliveredOut
                           ELSE Append(deliveredOut, g.item.id)
        /\ outdata' = fill
        /\ output_stream' = IF fill = Unwritten THEN "aborted" ELSE output_stream
  /\ UNCHANGED << envVars, cliVars, workerVars, variant, mainPc, chan, sent, ready_data, streaming_active,
                  input_stream, audio_input_queue, outPc, audio_chunks,
                  captureVars, sendVars, recvVars,
                  stopRequested, sentAtStop, histIn, pushedOut, lostOut, evictedOut >>

\* ------------------------------------------------------- send_audio
\* The executor thread's audio_input_queue.get(timeout=...) returns a
\* chunk.  If send_audio was cancelled meanwhile nobody takes the result.
ExecGetItem ==
  /\ execSt = "waiting"
  /\ LET g == get_nowait(audio_input_queue)
     IN /\ ~g.empty
        /\ audio_input_queue' = g.q
        /\ deliveredIn' = Append(deliveredIn, g.item.id)
        /\ IF sendPc = "wait_get"
             THEN audio_bytes' = g.item /\ sendPc' = "got"
             ELSE UNCHANGED << audio_bytes, sendPc >>
  /\ execSt' = "idle"
  /\ UNCHANGED << envVars, cliVars, workerVars, variant, mainVars, audio_output_queue,
                  captureVars, playbackVars, recvVars,
                  stopRequested, sentAtStop, pushedIn, lostIn, evictedIn, histOut >>

\* The get times out on an empty queue: queue.Empty reaches "except
\* Exception", the task sleeps, tests the flag and hands the next get to
\* the executor.
ExecGetTimeout ==
  /\ execSt = "waiting"
  /\ get_nowait(audio_input_queue).empty
  /\ IF sendPc = "wait_get"
       THEN /\ sendPc' = LoopTop(streaming_active, "wait_get")
            /\ execSt' = IF streaming_active THEN "waiting" ELSE "idle"
       ELSE /\ sendPc' = sendPc
            /\ execSt' = "idle"
  /\ UNCHANGED << envVars, cliVars, workerVars, variant, mainVars, queueVars,
                  audio_bytes, captureVars, playbackVars, recvVars, histVars >>

\* await websocket.send(json.dumps(audio_message)); a ConnectionClosed is
\* caught by "except Exception" (sleep, continue).  Then the flag is tested
\* and the next get is handed to the executor.
SendWrite ==
  /\ sendPc = "got"
  /\ LoopFree
  /\ sent' = IF chan = "open" THEN Append(sent, audio_message(audio_bytes.data))
             ELSE sent
  /\ sendPc' = LoopTop(streaming_active, "wait_get")
  /\ execSt' = IF streaming_active THEN "waiting" ELSE execSt
  /\ audio_bytes' = NoChunk
  /\ UNCHANGED << envVars, cliVars, workerVars, variant, mainPc, chan, ready_data, streaming_active, input_stream,
                  output_stream, queueVars,
                  captureVars, playbackVars, recvVars, histVars >>

\* -------------------------------------------------- receive_messages
\* One inbound message: json.loads, dispatch on the type; an audio message
\* is decoded and put_nowait on the playback queue.  Any exception ends the
\* task (except Exception: print).  Otherwise the flag is tested and the
\* next websocket.recv() awaited.
\* A dispatch that treats every type other than audio as an error.
BranchAudioOnly(m) ==
  IF GetType(m) = AUDIO /\ b64decode(GetData(m)).ok THEN "audio" ELSE "raise"

\* The branch of the dispatch a message takes: "raise" when json.loads,
\* data.get or b64decode raises, "audio" for the audio type, "print" for
\* the transcript, ready and else branches.
Branch(m) ==
  IF GetType(m) = "raise" \/ (GetType(m) = AUDIO /\ ~b64decode(GetData(m)).ok)
    THEN "raise"
  ELSE IF GetType(m) = AUDIO THEN "audio"
  ELSE "print"

Receive(m) ==
  /\ recvPc = "recv"
  /\ chan = "open"
  /\ nCaptured + nInbound < MaxEvents
  /\ nInbound' = nInbound + 1
  /\ LET d == b64decode(GetData(m))
         chunk == [id |-> nInbound + 1, data |-> d.bytes]
         r == put_nowait(audio_output_queue, chunk, OutputCap(variant))
         evict == r.full /\ OnFull(variant) = "evict"
     IN IF Branch(m) = "raise"
          THEN /\ recvPc' = "done"
               /\ UNCHANGED << audio_output_queue, recvChunk, pushedOut, lostOut >>
        ELSE IF Branch(m) = "audio"
          THEN /\ audio_output_queue' = r.q
               /\ pushedOut' = Append(pushedOut, chunk.id)
               /\ recvChunk' = IF evict THEN chunk ELSE NoChunk
               /\ recvPc' = IF evict THEN "evict"
                            ELSE LoopTop(streaming_active, "recv")
               /\ lostOut' = IF r.full /\ ~evict
                               THEN lostOut \cup {chunk.id} ELSE lostOut
        ELSE /\ recvPc' = LoopTop(streaming_active, "recv")
             /\ UNCHANGED << audio_output_queue, recvChunk, pushedOut, lostOut >>
  /\ UNCHANGED << envVars, cliVars, workerVars, variant, mainVars, audio_input_queue,
                  captureVars, playbackVars, sendVars,
                  stopRequested, sentAtStop, histIn, deliveredOut, evictedOut >>

\* await websocket.recv() returns one of the messages the endpoint sends.
RecvMessage == \E m \in Messages : Receive(m)

\* websocket.recv() raises ConnectionClosed: printed, the task returns.
RecvClosed ==
  /\ recvPc = "recv"
  /\ chan = "remote_closed"
  /\ recvPc' = "done"
  /\ UNCHANGED << envVars, cliVars, workerVars, variant, mainVars, queueVars,
                  recvChunk, nInbound, captureVars, playbackVars, sendVars, histVars >>

\* except Full: audio_output_queue.get_nowait(); except Empty: pass
RecvEvict ==
  /\ recvPc = "evict"
  /\ LET g == get_nowait(audio_output_queue)
     IN /\ audio_output_queue' = g.q
        /\ recvPc' = IF g.empty THEN LoopTop(streaming_active, "recv") ELSE "reput"
        /\ recvChunk' = IF g.empty THEN NoChunk ELSE recvChunk
        /\ lostOut' = IF g.empty THEN lostOut \cup {recvChunk.id} ELSE lostOut
        /\ evictedOut' = IF g.empty THEN evictedOut
                         ELSE evictedOut \cup {[by |-> recvChunk.id, id |-> g.item.id]}
  /\ UNCHANGED << envVars, cliVars, workerVars, variant, mainVars, audio_input_queue, nInbound,
                  captureVars, playbackVars, sendVars,
                  stopRequested, sentAtStop, histIn, pushedOut, deliveredOut >>

\* The second audio_output_queue.put_nowait(audio_bytes); a Full here is
\* caught by the task's "except Exception" and ends it.
RecvReput ==
  /\ recvPc = "reput"
  /\ LET r == put_nowait(audio_output_queue, recvChunk, OutputCap(variant))
     IN /\ audio_output_queue' = r.q
        /\ recvPc' = IF r.full THEN "done" ELSE LoopTop(streaming_active, "recv")
        /\ lostOut' = IF r.full THEN lostOut \cup {recvChunk.id} ELSE lostOut
  /\ recvChunk' = NoChunk
  /\ UNCHANGED << envVars, cliVars, workerVars, variant, mainVars, audio_input_queue, nInbound,
                  captureVars, playbackVars, sendVars,
                  stopRequested, sentAtStop, histIn, pushedOut, deliveredOut, evictedOut >>

Next ==
  \/ QueryDevices
  \/ QueryDevicesFail
  \/ ParseArgv
  \/ ConnectOk
  \/ ConnectFail
  \/ RemoteClose
  \/ SendConfig
  \/ RecvReady
  \/ RecvReadyClosed
  \/ ExitWith
  \/ OpenInput
  \/ OpenOutput
  \/ StartInput
  \/ StartOutput
  \/ DeviceError
  \/ EnterFinally
  \/ StopRequestEarly
  \/ ClearFlag
  \/ StopInput
  \/ StopOutput
  \/ CloseInput
  \/ CloseOutput
  \/ SendStop
  \/ ExRecv
  \/ ExClosed
  \/ ExTimeout
  \/ CapInvoke
  \/ CapPut
  \/ CapEvict
  \/ CapReput
  \/ OutTest
  \/ OutGet
  \/ RootOutputCallback
  \/ ExecGetItem
  \/ ExecGetTimeout
  \/ SendWrite
  \/ RecvMessage
  \/ RecvClosed
  \/ RecvEvict
  \/ RecvReput

Spec == Init /\ [][Next]_vars

\* ------------------------------------------------------------- fairness
\* asyncio.gather returns because both tasks returned (no interrupt).
GatherReturns == EnterFinally /\ stopRequested' = stopRequested

\* Steps the program takes by itself once they are enabled: the event
\* loop runs a ready coroutine, the executor thread runs, PortAudio keeps
\* invoking the callbacks of an active stream.  What the remote endpoint,
\* the user (interrupt) and the devices (blocks, errors) do is not forced.
MainProgress ==
  \/ QueryDevices \/ ParseArgv
  \/ SendConfig \/ RecvReadyClosed \/ ExitWith
  \/ OpenInput \/ OpenOutput \/ StartInput \/ StartOutput
  \/ GatherReturns \/ ClearFlag
  \/ StopInput \/ StopOutput \/ CloseInput \/ CloseOutput \/ SendStop
  \/ ExClosed \/ ExTimeout
SendProgress == ExecGetItem \/ ExecGetTimeout \/ SendWrite
RecvProgress == RecvClosed \/ RecvEvict \/ RecvReput
CaptureProgress == CapPut \/ CapEvict \/ CapReput
PlaybackProgress == OutTest \/ OutGet \/ RootOutputCallback

FairSpec ==
  /\ Spec
  /\ WF_vars(MainProgress)
  /\ WF_vars(SendProgress)
  /\ WF_vars(RecvProgress)
  /\ WF_vars(CaptureProgress)
  /\ WF_vars(PlaybackProgress)

\* ------------------------------------ quickstart: playback worker
\* Rates the worker is constructed with (the quickstart's 16000 and 44100,
\* in every combination).
WorkerRates == {SERVER_SAMPLING_RATE, OUTPUT_SAMPLING_RATE}

\* Chunks given to the worker: empty, one sample, two samples, an odd
\* number of bytes.
WorkerChunks == { << >>, <<1, 0>>, <<0, 128, 255, 127>>, <<7, 0, 9>> }

\* self.consume_nonblocking(self.out_rate * b"\x00") of __init__, scaled
\* to three samples.
InitialSilence == <<0, 0, 0, 0, 0, 0>>

\* np.frombuffer(chunk, dtype=np.int16): little-endian signed samples.
Int16(lo, hi) == IF hi >= 128 THEN lo + 256 * hi - 65536 ELSE lo + 256 * hi
frombuffer(chunk) ==
  [i \in 1..(Len(chunk) \div 2) |-> Int16(chunk[2 * i - 1], chunk[2 * i])]

\* scipy.signal.resample(x, num).astype(np.int16): num samples spanning
\* the input.  Only their number is exact in the model: each value is the
\* input sample at the same relative position.
resample(x, num) == [i \in 1..num |-> x[((i - 1) * Len(x)) \div num + 1]]

\* A resampling step that writes nothing when the rates are equal.
resample_step_skip(data, rateIn, rateOut) ==
  IF rateIn # rateOut
    THEN resample(data, resample_length(Len(data), rateIn, rateOut))
    ELSE << >>

\* if self.in_rate != self.out_rate: data = resample(data, num_samples_out)
\* (otherwise data is left as frombuffer made it).
resample_step(data, rateIn, rateOut) ==
  IF rateIn # rateOut
    THEN resample(data, resample_length(Len(data), rateIn, rateOut))
    ELSE data

\* The worker after __init__ and start(): the silence is queued and the
\* thread is about to test "while not self._ended".  The clients do not run.
WorkerInit ==
  /\ ClientInit
  /\ NoQuickstart
  /\ variant = "clients"
  /\ argv
  /\ in_rate \in WorkerRates
  /\ out_rate \in WorkerRates
  /\ sync_q = << InitialSilence >>
  /\ enqueued = << InitialSilence >>
  /\ stream = << >>
  /\ ended = FALSE
  /\ stream_closed = FALSE
  /\ workerPc = "test"

\* play(chunk): consume_nonblocking puts the chunk on the unbounded queue.
ConsumeNonblocking ==
  /\ Len(enqueued) <= MaxChunks
  /\ \E chunk \in WorkerChunks :
       /\ sync_q' = Append(sync_q, chunk)
       /\ enqueued' = Append(enqueued, chunk)
  /\ UNCHANGED << envVars, cliVars, variant, mainVars, queueVars, captureVars,
                  playbackVars, sendVars, recvVars, histVars,
                  in_rate, out_rate, stream, ended, stream_closed, workerPc >>

\* A loop test that does not look at the flag.
WorkerTestForever ==
  /\ workerPc = "test"
  /\ workerPc' = "get"
  /\ UNCHANGED << envVars, cliVars, variant, mainVars, queueVars, captureVars,
                  playbackVars, sendVars, recvVars, histVars,
                  in_rate, out_rate, sync_q, enqueued, stream, ended, stream_closed >>

\* while not self._ended
WorkerTest ==
  /\ workerPc = "test"
  /\ workerPc' = IF ended THEN "done" ELSE "get"
  /\ UNCHANGED << envVars, cliVars, variant, mainVars, queueVars, captureVars,
                  playbackVars, sendVars, recvVars, histVars,
                  in_rate, out_rate, sync_q, enqueued, stream, ended, stream_closed >>

\* sync_q.get(timeout=1) returns a chunk: frombuffer, skip when empty,
\* resample when the rates differ, self.stream.write(data).  A ValueError
\* (odd byte count, resample to zero samples) or the PortAudioError of a
\* write on the closed stream is not caught: the thread ends.
WorkerGet ==
  /\ workerPc = "get"
  /\ sync_q # << >>
  /\ sync_q' = Tail(sync_q)
  /\ LET chunk == Head(sync_q)
         data == frombuffer(chunk)
         raises == \/ ~FromBufferOk(chunk)
                   \/ /\ Len(data) > 0
                      /\ in_rate # out_rate
                      /\ resample_length(Len(data), in_rate, out_rate) = 0
                   \/ Len(data) > 0 /\ stream_closed
     IN IF raises
          THEN workerPc' = "crashed" /\ UNCHANGED stream
        ELSE IF Len(data) = 0
          THEN workerPc' = "test" /\ UNCHANGED stream
        ELSE /\ workerPc' = "test"
             /\ stream' = Append(stream, resample_step(data, in_rate, out_rate))
  /\ UNCHANGED << envVars, cliVars, variant, mainVars, queueVars, captureVars,
                  playbackVars, sendVars, recvVars, histVars,
                  in_rate, out_rate, enqueued, ended, stream_closed >>

\* The get times out: except queue.Empty: continue
WorkerTimeout ==
  /\ workerPc = "get"
  /\ sync_q = << >>
  /\ workerPc' = "test"
  /\ UNCHANGED << envVars, cliVars, variant, mainVars, queueVars, captureVars,
                  playbackVars, sendVars, recvVars, histVars,
                  in_rate, out_rate, sync_q, enqueued, stream, ended, stream_closed >>

\* terminate(): self._ended = True
Terminate ==
  /\ ~ended
  /\ ended' = TRUE
  /\ UNCHANGED << envVars, cliVars, variant, mainVars, queueVars, captureVars,
                  playbackVars, sendVars, recvVars, histVars,
                  in_rate, out_rate, sync_q, enqueued, stream, stream_closed,
                  workerPc >>

\* terminate(), after awaiting super().terminate(): self.stream.close()
CloseStream ==
  /\ ended
  /\ ~stream_closed
  /\ stream_closed' = TRUE
  /\ UNCHANGED << envVars, cliVars, variant, mainVars, queueVars, captureVars,
                  playbackVars, sendVars, recvVars, histVars,
                  in_rate, out_rate, sync_q, enqueued, stream, ended, workerPc >>

WorkerNext ==
  \/ ConsumeNonblocking
  \/ WorkerTest
  \/ WorkerGet
  \/ WorkerTimeout
  \/ Terminate
  \/ CloseStream

WorkerSpec == WorkerInit /\ [][WorkerNext]_vars

\* The worker thread is scheduled, and its get returns within the second
\* of its timeout; play() and terminate() are the caller's.
WorkerProgress == WorkerTest \/ WorkerGet \/ WorkerTimeout
FairWorkerSpec == WorkerSpec /\ WF_vars(WorkerProgress)

\* ------------------------------------------------ envelope loopback
\* The audio clients with an endpoint that echoes their audio messages.
\* Byte strings of a captured block: every length up to MaxBytes (every
\* base64 padding), with the lowest, the highest and a middle byte value.
ByteValues == {0, 77, 255}
LoopBytes == UNION { [1..n -> ByteValues] : n \in 0..MaxBytes }

\* json.dumps(message) at the sender and json.loads(message) at the
\* receiver: the object with its type and data members.
Wire(msg) == Obj(msg.type, TRUE, msg.data)

\* A streaming session whose send_audio holds a captured block b and whose
\* receive_messages awaits the next message.
LoopbackInit ==
  /\ variant \in {"clients", "root"}
  /\ argv = TRUE
  /\ exit_status = << >>
  /\ mainPc = "gather"
  /\ chan = "open"
  /\ sent = << start_message >>
  /\ ready_data = READY
  /\ streaming_active = TRUE
  /\ input_stream = "active"
  /\ output_stream = "active"
  /\ audio_input_queue = << >>
  /\ audio_output_queue = << >>
  /\ capPc = "idle"
  /\ capChunk = NoChunk
  /\ nCaptured = 1
  /\ outPc = "idle"
  /\ audio_chunks = << >>
  /\ outdata = Unset
  /\ sendPc = "got"
  /\ execSt = "idle"
  /\ \E b \in LoopBytes : audio_bytes = [id |-> 1, data |-> b]
  /\ recvPc = "recv"
  /\ recvChunk = NoChunk
  /\ nInbound = 0
  /\ stopRequested = FALSE
  /\ sentAtStop = 0
  /\ pushedIn = << 1 >>
  /\ deliveredIn = << 1 >>
  /\ lostIn = {}
  /\ evictedIn = {}
  /\ pushedOut = << >>
  /\ deliveredOut = << >>
  /\ lostOut = {}
  /\ evictedOut = {}
  /\ NoWorker
  /\ NoQuickstart

\* The endpoint sends the client's last audio message back.
Echo ==
  /\ sent[Len(sent)].type = AUDIO
  /\ Receive(Wire(sent[Len(sent)]))

LoopbackNext == SendWrite \/ Echo

LoopbackSpec == LoopbackInit /\ [][LoopbackNext]_vars

\* ----------------------------------------- quickstart: .env selection
ETC_ENV == "/etc/vocode/.env"
SCRIPT_ENV == "<script directory>/.env"
CWD_ENV == ".env"

\* The quickstart when its module code starts; the files and the
\* environment are whatever the machine has.  Neither the clients nor the
\* worker run.
EnvInit ==
  /\ ClientInit
  /\ NoWorker
  /\ variant = "clients"
  /\ argv
  /\ etc_file \in {"absent", "readable", "unreadable", "directory"}
  /\ script_env \in BOOLEAN
  /\ cwd_env \in BOOLEAN
  /\ env_keys \in BOOLEAN
  /\ file_keys \in BOOLEAN
  /\ ENV_FILE = "None"
  /\ env_file_found = FALSE
  /\ settings_from = "unset"
  /\ envPc = "etc_exists"

\* if Path("/etc/vocode/.env").exists():
EtcExists ==
  /\ envPc = "etc_exists"
  /\ envPc' = IF etc_file # "absent" THEN "etc_open" ELSE "script"
  /\ UNCHANGED << cliVars, workerVars, variant, mainVars, queueVars, captureVars,
                  playbackVars, sendVars, recvVars, histVars,
                  etc_file, script_env, cwd_env, env_keys, file_keys,
                  ENV_FILE, env_file_found, settings_from >>

\* with open("/etc/vocode/.env", "r"): the file is taken; on
\* PermissionError ENV_FILE = None (env_file_found stays False); any other
\* OSError is not caught and ends the script.
EtcOpen ==
  /\ envPc = "etc_open"
  /\ CASE etc_file = "readable" ->
            /\ ENV_FILE' = ETC_ENV
            /\ env_file_found' = TRUE
            /\ envPc' = "script"
       [] etc_file = "unreadable" ->
            /\ ENV_FILE' = "None"
            /\ env_file_found' = env_file_found
            /\ envPc' = "script"
       [] OTHER ->
            /\ envPc' = "failed"
            /\ UNCHANGED << ENV_FILE, env_file_found >>
  /\ UNCHANGED << cliVars, workerVars, variant, mainVars, queueVars, captureVars,
                  playbackVars, sendVars, recvVars, histVars,
                  etc_file, script_env, cwd_env, env_keys, file_keys,
                  settings_from >>

\* The candidate that follows the one tested at pc.
NextCandidate(pc) == IF pc = "script" THEN "cwd" ELSE "none"

\* if not env_file_found and <candidate>.exists():
TakeCandidate(found, exists) == ~found /\ exists

\* The tests of the .env in the script directory and in the current
\* directory.
FallbackCandidate ==
  /\ envPc \in {"script", "cwd"}
  /\ LET exists == IF envPc = "script" THEN script_env ELSE cwd_env
         file == IF envPc = "script" THEN SCRIPT_ENV ELSE CWD_ENV
     IN IF TakeCandidate(env_file_found, exists)
          THEN ENV_FILE' = file /\ env_file_found' = TRUE
          ELSE UNCHANGED << ENV_FILE, env_file_found >>
  /\ envPc' = NextCandidate(envPc)
  /\ UNCHANGED << cliVars, workerVars, variant, mainVars, queueVars, captureVars,
                  playbackVars, sendVars, recvVars, histVars,
                  etc_file, script_env, cwd_env, env_keys, file_keys,
                  settings_from >>

\* if not env_file_found: ENV_FILE = None
NoFileFound ==
  /\ envPc = "none"
  /\ ENV_FILE' = IF ~env_file_found THEN "None" ELSE ENV_FILE
  /\ envPc' = "settings"
  /\ UNCHANGED << cliVars, workerVars, variant, mainVars, queueVars, captureVars,
                  playbackVars, sendVars, recvVars, histVars,
                  etc_file, script_env, cwd_env, env_keys, file_keys,
                  env_file_found, settings_from >>

\* settings = Settings() with env_file=ENV_FILE if ENV_FILE else None, and
\* the validation of the API keys (ValueError when one is missing).
LoadSettings ==
  /\ envPc = "settings"
  /\ settings_from' = IF ENV_FILE = "None" THEN "env" ELSE "env+file"
  /\ envPc' = IF env_keys \/ (ENV_FILE # "None" /\ file_keys)
                THEN "loaded" ELSE "failed"
  /\ UNCHANGED << cliVars, workerVars, variant, mainVars, queueVars, captureVars,
                  playbackVars, sendVars, recvVars, histVars,
                  etc_file, script_env, cwd_env, env_keys, file_keys,
                  ENV_FILE, env_file_found >>

EnvNext ==
  \/ EtcExists
  \/ EtcOpen
  \/ FallbackCandidate
  \/ NoFileFound
  \/ LoadSettings

EnvSpec == EnvInit /\ [][EnvNext]_vars

\* ================================================================ claims
Range(s) == { s[i] : i \in 1..Len(s) }
Ids(q) == [i \in 1..Len(q) |-> q[i].id]
LastN(s, n) == IF Len(s) <= n THEN s ELSE SubSeq(s, Len(s) - n + 1, Len(s))
FirstN(s, n) == IF Len(s) <= n THEN s ELSE SubSeq(s, 1, n)

RECURSIVE IsSubseq(_, _)
IsSubseq(a, b) ==
  IF a = <<>> THEN TRUE
  ELSE IF b = <<>> THEN FALSE
  ELSE IF Head(a) = Head(b) THEN IsSubseq(Tail(a), Tail(b))
  ELSE IsSubseq(a, Tail(b))

\* --------------------------------------------------------------------- C1
\* C1: each of the two audio queues never holds more chunks than its
\* capacity, in every reachable state, under every interleaving of the two
\* callbacks, the executor's get and the receive loop.
C1_QueueBounded ==
  /\ Len(audio_input_queue) <= InputCap(variant)
  /\ Len(audio_output_queue) <= OutputCap(variant)

\* A push found the capture queue full and the queue is again at capacity.
C1_Witness ==
  /\ Len(audio_input_queue) = InputCap(variant)
  /\ Len(pushedIn) > InputCap(variant)
  /\ capPc = "idle"

\* --------------------------------------------------------------------- C2
\* One run of the push of audio_callback / receive_messages with nothing
\* else touching the queue: put_nowait, and on Full what the variant does.
PushAlone(v, q, item, maxsize) ==
  LET r == put_nowait(q, item, maxsize)
  IN IF ~r.full THEN r.q
     ELSE IF OnFull(v) = "evict"
       THEN LET g == get_nowait(q)
            IN IF g.empty THEN g.q ELSE put_nowait(g.q, item, maxsize).q
     ELSE q

\* Chunks #1..#k pushed one after the other onto an empty queue.
RECURSIVE PushAll(_, _, _)
PushAll(v, k, maxsize) ==
  IF k = 0 THEN <<>>
  ELSE PushAlone(v, PushAll(v, k - 1, maxsize),
                 [id |-> k, data |-> BlockBytes(k)], maxsize)

\* 60 pushes at the program's capacity of 50 leave #11..#60 in that order.
Overflow60 ==
  /\ Ids(PushAll("clients", 60, INPUT_QUEUE_SIZE)) = [i \in 1..50 |-> i + 10]
  /\ Ids(PushAll("clients", 60, OUTPUT_QUEUE_SIZE)) = [i \in 1..50 |-> i + 10]

\* C2: in the clients variant, after k pushes with no pop in between, a
\* queue of capacity N holds exactly the last min(k, N) pushed chunks in
\* push order, with their bytes; 60 pushes at N = 50 leave #11..#60.
C2_ClientsKeepsNewest ==
  /\ Overflow60
  /\ (variant = "clients" /\ deliveredIn = <<>> /\ capPc = "idle") =>
       /\ Ids(audio_input_queue) = LastN(pushedIn, InputCap(variant))
       /\ \A i \in 1..Len(audio_input_queue) :
            audio_input_queue[i].data = BlockBytes(audio_input_queue[i].id)
  /\ (variant = "clients" /\ deliveredOut = <<>> /\ LoopFree) =>
       Ids(audio_output_queue) = LastN(pushedOut, OutputCap(variant))

\* More pushes than the capacity, none popped, the oldest gone.
C2_Witness ==
  /\ variant = "clients"
  /\ deliveredIn = <<>>
  /\ capPc = "idle"
  /\ Len(pushedIn) > InputCap(variant)
  /\ Ids(audio_input_queue) = LastN(pushedIn, InputCap(variant))
  /\ pushedIn[1] \notin Range(Ids(audio_input_queue))

C4_PushKeepsChunk ==
  variant = "clients" =>
    /\ lostIn = {} /\ lostOut = {}
    /\ \A e1, e2 \in evictedIn : e1.by = e2.by => e1.id = e2.id
    /\ \A e1, e2 \in evictedOut : e1.by = e2.by => e1.id = e2.id
    /\ \A e \in evictedIn \cup evictedOut : e.id < e.by

\* --------------------------------------------------------------------- C5
\* C5: in each queue the chunks delivered to the consumer are a subsequence
\* of the chunks pushed: same relative order, none twice.
C5_DeliveredSubsequence ==
  /\ IsSubseq(deliveredIn, pushedIn)
  /\ IsSubseq(deliveredOut, pushedOut)

\* Pops and an overflow eviction on the same queue.
C5_Witness ==
  /\ Len(deliveredIn) >= 2
  /\ evictedIn # {}

\* --------------------------------------------------------------------- C6
OfType(s, t) == SelectSeq(s, LAMBDA m : m.type = t)
AudioCount(s) == Len(OfType(s, AUDIO))
StopCount(s) == Len(OfType(s, STOP))
ConfigCount(s) == Len(OfType(s, AUDIO_CONFIG_START))

\* After a first message that is not the acknowledgement: the session is
\* leaving, no stream exists, no callback ran, no audio was written.
C6_Rejected ==
  ready_data \notin {"none", READY} =>
    /\ mainPc \in {"exit", "done"}
    /\ input_stream = "none" /\ output_stream = "none"
    /\ capPc = "idle" /\ outPc = "idle" /\ nCaptured = 0
    /\ sendPc = "none" /\ recvPc = "none"
    /\ ~streaming_active
    /\ AudioCount(sent) = 0

\* The step that receives the first message.
C6_Step ==
  /\ (ready_data = "none" /\ ready_data' = READY) => SessionState' = "Streaming"
  /\ (ready_data = "none" /\ ready_data' \notin {"none", READY}) =>
       SessionState' \in {"Draining", "Closed"}
  /\ (mainPc = "exit" /\ mainPc' # mainPc) => SessionState' = "Closed"

\* C6: a well-formed ready acknowledgement as first inbound message takes
\* the session to Streaming; any other first message takes it to Closed
\* with no device stream ever started and no audio message written.
C6_Handshake == [](C6_Rejected) /\ [][C6_Step]_vars

\* A first message of another type (an audio message) ended the session.
C6_Witness ==
  /\ ready_data = AUDIO
  /\ mainPc = "done"
  /\ chan = "closed"
  /\ sent = << start_message >>

\* --------------------------------------------------------------------- C7
\* C7: the first message written is the configuration, it is written
\* exactly once, and no audio or stop message is written before it or
\* before the acknowledgement was received.
C7_ConfigFirst ==
  /\ sent # <<>> => sent[1] = start_message
  /\ ConfigCount(sent) <= 1
  /\ mainPc = "recv_ready" => sent = << start_message >>
  /\ ready_data # "none" => ConfigCount(sent) = 1
  /\ \A i \in 1..Len(sent) :
       sent[i].type \in {AUDIO, STOP} => (i > 1 /\ ready_data = READY)

\* A whole session: configuration, audio, stop.
C7_Witness ==
  /\ Len(sent) >= 3
  /\ sent[1] = start_message
  /\ AudioCount(sent) >= 1
  /\ sent[Len(sent)] = stop_message

\* --------------------------------------------------------------------- C8
\* C8 as the specification states it: no device callback starts before
\* the session is Streaming, and on every shutdown path both streams are
\* stopped before the channel is closed, so that no callback touches a
\* queue once the channel is closed.
C8_StreamsInsideSession ==
  /\ (input_stream # "none" \/ output_stream # "none") => ready_data = READY
  /\ (capPc # "idle" \/ outPc # "idle" \/ nCaptured > 0) => ready_data = READY
  /\ chan = "closed" =>
       /\ input_stream # "active" /\ output_stream # "active"
       /\ capPc = "idle" /\ outPc = "idle"

\* --------------------------------------------------------------------- C9
\* base64 text of the three capture blocks: "TWFu", "/wA=", "gA==".
ExpectedText(k) ==
  CASE k % 3 = 1 -> <<19, 22, 5, 46>>
    [] k % 3 = 2 -> <<63, 48, 0, 64>>
    [] OTHER -> <<32, 0, 64, 64>>

\* The encoder on known texts ("AQA=", "AID/fw==", "BwAJ", "") and back.
B64Vectors ==
  /\ \A k \in 1..3 : b64encode(BlockBytes(k)) = ExpectedText(k)
  /\ b64encode(<<1, 0>>) = <<0, 16, 0, 64>>
  /\ b64encode(<<0, 128, 255, 127>>) = <<0, 8, 3, 63, 31, 48, 64, 64>>
  /\ b64encode(<<7, 0, 9>>) = <<1, 48, 0, 9>>
  /\ b64encode(<<>>) = <<>>
  /\ \A d \in InboundData : b64decode(b64encode(d)) = [ok |-> TRUE, bytes |-> d]

\* The chunks send_audio took and has finished writing.
WrittenIds ==
  IF sendPc = "got" THEN SubSeq(deliveredIn, 1, Len(deliveredIn) - 1)
  ELSE deliveredIn

\* C9: while Streaming on a healthy channel every chunk the send loop
\* popped is written as exactly one audio envelope carrying the base64
\* text of its bytes, in push order; three chunks give three envelopes.
C9_AudioEnvelopes ==
  /\ B64Vectors
  /\ (SessionState = "Streaming" /\ chan = "open") =>
       LET a == OfType(sent, AUDIO)
       IN /\ Len(a) = Len(WrittenIds)
          /\ IsSubseq(WrittenIds, pushedIn)
          /\ \A i \in 1..Len(a) :
               /\ a[i] = [type |-> AUDIO, data |-> ExpectedText(WrittenIds[i])]
               /\ b64decode(a[i].data) =
                    [ok |-> TRUE, bytes |-> BlockBytes(WrittenIds[i])]

\* Three chunks pushed, three audio envelopes written.
C9_Witness ==
  /\ SessionState = "Streaming"
  /\ chan = "open"
  /\ pushedIn = <<1, 2, 3>>
  /\ AudioCount(sent) = 3

\* -------------------------------------------------------------------- C10
\* The interrupt was delivered while an audio client was Streaming.
StopDuringStreaming == stopRequested /\ variant # "example" /\ ready_data = READY

NoAudioAfterStop == AudioCount(sent) = AudioCount(SubSeq(sent, 1, sentAtStop))

\* C10 as the specification states it: a stop request during Streaming
\* makes the client write exactly one stop message, and no audio message
\* is written after the request.
C10_ExactlyOneStop ==
  (StopDuringStreaming /\ mainPc = "done") =>
    /\ StopCount(sent) = 1
    /\ NoAudioAfterStop

\* C10, amended: after a stop request during Streaming no audio message is
\* written any more, whatever the capture queue holds, and at most one
\* stop message is written, as the last message; it is written exactly
\* when the four stream stop/close calls returned and the channel is still
\* open at the write (a closed channel or a raising device call: none).
C10_StopBestEffort ==
  StopDuringStreaming =>
    /\ NoAudioAfterStop
    /\ StopCount(sent) <= 1
    /\ StopCount(sent) = 1 =>
         /\ sent[Len(sent)] = stop_message
         /\ input_stream = "closed" /\ output_stream = "closed"
    /\ (mainPc = "exit" /\ output_stream = "closed" /\ chan = "open") =>
         StopCount(sent) = 1
    /\ (mainPc \in {"exit", "done"} /\ output_stream # "closed") =>
         StopCount(sent) = 0

\* The stop message was written while the capture queue held a chunk.
C10_Witness ==
  /\ StopDuringStreaming
  /\ StopCount(sent) = 1
  /\ audio_input_queue # <<>>

\* -------------------------------------------------------------------- C11
\* C11 as the specification states it: when the remote side closes the
\* channel (or a read fails) while Streaming, the receive loop ends and
\* the session eventually drains (send loop stopped, device streams
\* stopped and closed) and reaches Closed.
C11_ClosureDrains ==
  (mainPc = "gather" /\ chan = "remote_closed") ~>
    (mainPc = "done" /\ input_stream = "closed" /\ output_stream = "closed")

\* -------------------------------------------------------------------- C12
\* Chunks the send loop took whose websocket.send raised (while Streaming
\* every chunk taken and not in flight was either written or failed).
FailedWrites == Len(WrittenIds) - AudioCount(sent)

\* C12 as the specification states it: a channel write that fails in the
\* send loop while Streaming reaches the orchestrator: the send loop pops
\* no further chunk from the capture queue, and the session eventually
\* reaches Closed with both device streams stopped and closed.
C12_WriteFailureDrains ==
  /\ [](SessionState = "Streaming" => Len(deliveredIn) <= AudioCount(sent) + 1)
  /\ (mainPc = "gather" /\ FailedWrites >= 1) ~>
       (mainPc = "done" /\ input_stream = "closed" /\ output_stream = "closed")

\* -------------------------------------------------------------------- C13
\* The receive loop ended on an open channel: json.loads or b64decode
\* raised on the message it had received.
MalformedReceived == mainPc = "gather" /\ recvPc = "done" /\ chan = "open"

\* C13 as the specification states it: a malformed inbound envelope
\* received while Streaming is fatal and triggers drain (one stop message,
\* device streams stopped and closed, session Closed).  Stated in its
\* weakest form: after such an envelope the session eventually leaves
\* Streaming.
C13_MalformedDrains == MalformedReceived ~> (SessionState # "Streaming")

\* -------------------------------------------------------------------- C14
\* C14 as the specification states it: whatever chunk the playback queue
\* holds (an odd number of bytes, more samples than the buffer), the
\* playback callback returns without raising and leaves the buffer filled
\* with samples or silence.
C14_PlaybackNeverRaises ==
  /\ outdata.status # "unwritten"
  /\ output_stream # "aborted"

\* -------------------------------------------------------------------- C15
\* streaming_active.clear() has run (the flag is only ever set by the
\* audio clients on the acknowledgement).
DrainRequested == ~streaming_active /\ ready_data = READY /\ variant # "example"

\* C15 as the specification states it: once the flag is cleared, in every
\* interleaving of the callbacks with the shutdown sequence the capture
\* callback enqueues no further chunk and the playback callback writes
\* only silence.
C15_CallbacksHonourStop ==
  [][DrainRequested =>
       /\ pushedIn' = pushedIn
       /\ outdata' # outdata => outdata' = Silence(Frames(variant))]_vars

\* -------------------------------------------------------------------- C16
\* C16 as the specification states it: on every execution that opens a
\* device stream, also when opening or starting the second stream fails
\* or a shutdown step raises, each opened stream is stopped and closed and
\* the channel is closed before the run ends.
C16_HandlesReleased ==
  mainPc = "done" =>
    /\ input_stream \in {"none", "closed"}
    /\ output_stream \in {"none", "closed"}
    /\ chan \in {"none", "closed"}

\* -------------------------------------------------------------------- C17
\* C17 as the specification states it: a device that cannot be opened is
\* detected before any connection is attempted: no execution opens the
\* channel (or sends the handshake) and then fails to open a device.
C17_DeviceBeforeNetwork ==
  [][(mainPc \in {"open_input", "open_output"} /\ mainPc' = "exit") =>
       (chan = "none" /\ sent = <<>>)]_vars

\* -------------------------------------------------------------------- C18
\* C18: a playback callback invoked on an empty playback queue writes zero
\* to every one of the frames requested samples and pops nothing.
C18_EmptyQueueSilence ==
  [][(outPc = "idle" /\ audio_output_queue = <<>> /\ outdata' # outdata) =>
       /\ outdata' = [status |-> "written", audio |-> 0, zeros |-> Frames(variant)]
       /\ audio_output_queue' = <<>>
       /\ deliveredOut' = deliveredOut
       /\ outPc' = "idle"
       /\ output_stream' = output_stream]_vars

\* The callback ran on a queue nothing was ever pushed to.
C18_Witness ==
  /\ outdata = [status |-> "written", audio |-> 0, zeros |-> Frames(variant)]
  /\ pushedOut = <<>>
  /\ deliveredOut = <<>>
  /\ output_stream = "active"

\* -------------------------------------------------------------------- C19
\* C19 as the specification states it: in both variants every invocation
\* of the playback callback, for every queue content and chunk length,
\* writes all frames positions of the buffer: audio where resampled audio
\* is available, zero elsewhere, exactly frames samples.
C19_BufferFilled ==
  outdata.status # "unset" =>
    /\ outdata.status = "written"
    /\ outdata.audio + outdata.zeros = Frames(variant)

\* -------------------------------------------------------------------- C20
\* Sampling rates the length computation is checked for.
Rates == {8000, 16000, 22050, 44100, 48000}

\* m is n * rateOut / rateIn rounded down / rounded to a nearest integer.
IsFloorOf(m, n, rateIn, rateOut) ==
  m * rateIn <= n * rateOut /\ n * rateOut < (m + 1) * rateIn
IsRoundOf(m, n, rateIn, rateOut) ==
  2 * m * rateIn - rateIn <= 2 * n * rateOut /\ 2 * n * rateOut <= 2 * m * rateIn + rateIn

\* The root playback callback pops a chunk and writes its resampled
\* samples (all of them: it does not clamp to the buffer).
RootWrites ==
  /\ variant = "root"
  /\ deliveredOut' # deliveredOut
  /\ outdata'.status = "written"

\* C20 as the specification states it: for every input length n and rates
\* rateIn, rateOut the resampling step produces round(n * rateOut / rateIn)
\* samples.
C20_LengthRounds ==
  /\ [](\A n \in 0..MaxSamples : \A ri, ro \in Rates :
          IsRoundOf(resample_length(n, ri, ro), n, ri, ro))
  /\ [][RootWrites =>
          IsRoundOf(outdata'.audio, NumSamples(Head(audio_output_queue).data),
                    SERVER_SAMPLING_RATE, OUTPUT_SAMPLING_RATE)]_vars

LengthsTruncate ==
  /\ \A n \in 0..MaxSamples : \A ri, ro \in Rates :
       IsFloorOf(resample_length(n, ri, ro), n, ri, ro)
  /\ \A n \in 0..MaxSamples :
       num_samples_out(n) = resample_length(n, SERVER_SAMPLING_RATE, OUTPUT_SAMPLING_RATE)

\* C20, amended: for every input length n and rates rateIn, rateOut the
\* resampling step produces floor(n * rateOut / rateIn) samples (int()
\* truncates; n itself when the rates are equal), which is one sample
\* less than the rounded length whenever the fraction is above one half.
C20_LengthTruncates ==
  /\ [](LengthsTruncate)
  /\ [][RootWrites =>
          IsFloorOf(outdata'.audio, NumSamples(Head(audio_output_queue).data),
                    SERVER_SAMPLING_RATE, OUTPUT_SAMPLING_RATE)]_vars

\* The root callback resampled a one-sample chunk: int(2.75625) = 2.
C20_Witness ==
  /\ variant = "root"
  /\ outdata.status = "written"
  /\ outdata.audio = 2
  /\ ~IsRoundOf(outdata.audio, 1, SERVER_SAMPLING_RATE, OUTPUT_SAMPLING_RATE)

\* -------------------------------------------------------------------- C21
\* m is within one sample of n * rateOut / rateIn rounded to a nearest
\* integer.
WithinOneOfRound(m, n, rateIn, rateOut) ==
  \E r \in {m - 1, m, m + 1} : IsRoundOf(r, n, rateIn, rateOut)

\* The 100 ms block of the server's audio: 1600 samples at 16 kHz.
LengthsNearRound ==
  /\ \A n \in 0..MaxSamples :
       WithinOneOfRound(num_samples_out(n), n,
                        SERVER_SAMPLING_RATE, OUTPUT_SAMPLING_RATE)
  /\ WithinOneOfRound(num_samples_out(1600), 1600,
                      SERVER_SAMPLING_RATE, OUTPUT_SAMPLING_RATE)
  /\ num_samples_out(1600) = 4410

\* C21: for rateIn = 16000 and rateOut = 44100 the resampled output length
\* is within one sample of round(n * 44100 / 16000) for every input length
\* n, and it is 4410 for n = 1600; the samples a playback callback writes
\* from a popped chunk have such a length.
C21_LengthNearRound ==
  /\ [](LengthsNearRound)
  /\ [][RootWrites =>
          WithinOneOfRound(outdata'.audio,
                           NumSamples(Head(audio_output_queue).data),
                           SERVER_SAMPLING_RATE, OUTPUT_SAMPLING_RATE)]_vars

\* The root callback wrote the 2 samples of a one-sample chunk, one less
\* than the rounded length 3.
C21_Witness ==
  /\ variant = "root"
  /\ outdata = Buffer(2, Frames("root") - 2)
  /\ deliveredOut # <<>>
  /\ IsRoundOf(outdata.audio + 1, 1, SERVER_SAMPLING_RATE, OUTPUT_SAMPLING_RATE)

\* -------------------------------------------------------------------- C22
\* Sample arrays the resampling step is applied to.
SampleArrays == { frombuffer(c) : c \in WorkerChunks \cup {InitialSilence} }

\* The worker writes an array while its two rates are equal.
WritesAtEqualRates == stream' # stream /\ in_rate = out_rate

\* C22: when the input rate equals the output rate the resampling step
\* returns the input samples unchanged (same length, same values, same
\* order): what the worker writes is what frombuffer made of the chunk,
\* and the length computation of the clients returns the input length.
C22_EqualRatesIdentity ==
  /\ [](\A r \in Rates : \A data \in SampleArrays :
          /\ resample_step(data, r, r) = data
          /\ resample_length(Len(data), r, r) = Len(data))
  /\ [][WritesAtEqualRates =>
          stream' = Append(stream, frombuffer(Head(sync_q)))]_vars

\* A worker with equal rates has written the silence and then the two
\* samples -32768, 32767 as they came.
C22_Witness ==
  /\ in_rate = out_rate
  /\ Len(stream) = 2
  /\ stream[2] = << -32768, 32767 >>

\* -------------------------------------------------------------------- C23
\* The connection attempt failed and the run is over.
ConnectFailed == mainPc = "done" /\ chan = "none"

NothingDone ==
  /\ sent = << >>
  /\ input_stream = "none"
  /\ output_stream = "none"
  /\ sendPc = "none"
  /\ recvPc = "none"

\* C23: if opening the channel fails the run ends in Closed after that one
\* connection attempt: the failing attempt leads straight to Closed, and
\* from then on the client stays there (no retry), no message is written
\* and no device stream is opened.
C23_ConnectFailureCloses ==
  /\ [][(mainPc = "connect" /\ mainPc' # mainPc /\ chan' # "open") =>
          (ConnectFailed' /\ SessionState' = "Closed")]_vars
  /\ [](ConnectFailed => NothingDone)
  /\ [][ConnectFailed => ConnectFailed']_vars

\* An audio client given an endpoint failed to connect.
C23_Witness ==
  /\ ConnectFailed
  /\ variant = "clients"
  /\ argv
  /\ NothingDone

\* -------------------------------------------------------------------- C24
\* A transcript, a second ready, a message of another type and one
\* without a type.
IgnoredMsgs == { Plain(TRANSCRIPT), Plain(READY), Plain(BASE), Plain("None") }

\* C24: while Streaming, processing an inbound transcript message, a
\* duplicate ready message or a message with an unrecognized type leaves
\* the capture queue and the playback queue unchanged, writes nothing to
\* the channel, and the receive loop goes on to read the next message.
C24_IgnoredMessages ==
  [][\A m \in IgnoredMsgs :
       (SessionState = "Streaming" /\ Receive(m)) =>
         /\ UNCHANGED << audio_input_queue, audio_output_queue, sent >>
         /\ recvPc' = "recv"]_vars

\* A message was received that was neither pushed nor ended the loop.
C24_Witness ==
  /\ SessionState = "Streaming"
  /\ nInbound = 1
  /\ pushedOut = << >>
  /\ recvPc = "recv"

\* -------------------------------------------------------------------- C25
\* The two audio clients (the example client plays and captures nothing,
\* enumerates no device and has a default address).
AudioClient == variant \in {"clients", "root"}

\* The process has ended by sys.exit(1) without having opened a channel.
ExitedNonZero ==
  /\ mainPc = "exited"
  /\ exit_status = << 1 >>
  /\ chan = "none"
  /\ sent = << >>

\* C25: when the audio client is started without the endpoint argument,
\* or when device enumeration fails, it exits with a non-zero status and
\* no connection to any endpoint is ever attempted.
C25_UsageAndDeviceExit ==
  /\ []((AudioClient /\ ~argv) =>
          (mainPc \in {"query_devices", "argv", "exited"} /\ chan = "none"))
  /\ [][(AudioClient /\ ~argv /\ mainPc = "argv" /\ mainPc' # mainPc) =>
          ExitedNonZero']_vars
  /\ [][(mainPc = "query_devices" /\ mainPc' \notin {"query_devices", "argv"}) =>
          ExitedNonZero']_vars
  /\ [](mainPc = "exited" => ExitedNonZero)
  /\ [][mainPc = "exited" => UNCHANGED vars]_vars

\* The clients variant, started without an endpoint, has exited with
\* status 1.
C25_Witness ==
  /\ variant = "clients"
  /\ ~argv
  /\ ExitedNonZero

\* -------------------------------------------------------------------- C26
\* The order of the session states.
Rank(state) ==
  CASE state = "NotStarted" -> 0
    [] state = "Connecting" -> 1
    [] state = "AwaitingReady" -> 2
    [] state = "Streaming" -> 3
    [] state = "Draining" -> 4
    [] OTHER -> 5

\* A step in which neither device callback runs.
NoCallbackStep ==
  UNCHANGED << capPc, capChunk, nCaptured, outPc, audio_chunks, outdata,
               deliveredOut, pushedIn >>

StateAdvances == [][Rank(SessionState') >= Rank(SessionState)]_vars

ClosedTerminal == [][SessionState = "Closed" => SessionState' = "Closed"]_vars

ClosedSilent == [][SessionState = "Closed" => sent' = sent]_vars

\* C26 as the specification states it: the session state only advances
\* along Connecting, AwaitingReady, Streaming, Draining, Closed (failures
\* may skip to Closed), never moves backwards, Closed is terminal, and
\* once Closed no message is written and no device callback runs.
C26_StateMonotone ==
  /\ StateAdvances
  /\ ClosedTerminal
  /\ ClosedSilent
  /\ [][SessionState = "Closed" => NoCallbackStep]_vars

\* -------------------------------------------------------------------- C27
\* C27 as the specification states it: every chunk the capture callback
\* enqueues has a byte length equal to the chunk_size declared in the
\* handshake message (4096 bytes), in both audio client variants.
C27_ChunkSizeDeclared ==
  (capPc = "put" /\ sent # << >>) =>
    /\ Head(sent) = start_message
    /\ Head(sent).input_audio_config.chunk_size = 4096
    /\ CaptureChunkBytes(variant) = Head(sent).input_audio_config.chunk_size

\* -------------------------------------------------------------------- C28
\* The clients playback callback leaves its loop with chunks collected and
\* fills the buffer.
PlaybackFills ==
  /\ variant = "clients"
  /\ audio_chunks # << >>
  /\ audio_chunks' = << >>
  /\ outdata'.status = "written"

\* C28 as the specification states it: in the clients variant the
\* playback callback never discards audio it has dequeued: in each
\* invocation the resampled length of all chunks popped from the playback
\* queue is at most frames, so every popped sample is written.
C28_NoPoppedAudioDiscarded ==
  [][PlaybackFills =>
       /\ num_samples_out(Sum(audio_chunks)) <= Frames(variant)
       /\ outdata'.audio = num_samples_out(Sum(audio_chunks))]_vars

\* -------------------------------------------------------------------- C29
SendLoopRunning == sendPc \in {"wait_get", "got"}
RecvLoopRunning == recvPc \in {"recv", "evict", "reput"}

\* The step is streaming_active.set() after the ready acknowledgement.
SetsFlag ==
  /\ mainPc = "recv_ready"
  /\ ready_data' = READY
  /\ sendPc = "none"
  /\ recvPc = "none"

\* The step is streaming_active.clear() of the shutdown block, both loops
\* having finished.
ClearsFlag ==
  /\ mainPc = "clear"
  /\ mainPc' = "stop_input"
  /\ sendPc = "done"
  /\ recvPc = "done"

\* The step cancels the tasks: the interrupt delivered at the gather.
Cancels ==
  /\ mainPc = "gather"
  /\ mainPc' = "clear"
  /\ ~stopRequested
  /\ stopRequested'

\* C29: the streaming flag is set exactly once (after the ready
\* acknowledgement) and cleared only in the shutdown block that runs after
\* both the send loop and the receive loop have finished; hence in every
\* state where either loop is still running the flag is set, and the send
\* loop can end only by cancellation, never by observing the flag.
C29_FlagLifecycle ==
  /\ [][(~streaming_active /\ streaming_active') => SetsFlag]_vars
  /\ [][(streaming_active /\ ~streaming_active') => ClearsFlag]_vars
  /\ []((SendLoopRunning \/ RecvLoopRunning) => streaming_active)
  /\ [][(SendLoopRunning /\ ~SendLoopRunning') =>
          (Cancels /\ streaming_active /\ streaming_active')]_vars

\* The send loop wrote audio, was cancelled by the interrupt, and the
\* shutdown block has then cleared the flag.
C29_Witness ==
  /\ ~streaming_active
  /\ ready_data = READY
  /\ mainPc = "stop_input"
  /\ stopRequested
  /\ sendPc = "done"
  /\ AudioCount(sent) >= 1

\* -------------------------------------------------------------------- C30
\* The send loop writes the envelope of the block it holds.
WritesEnvelopeOf(b) ==
  /\ sendPc = "got"
  /\ audio_bytes.data = b
  /\ Len(sent') = Len(sent) + 1

\* The receive loop handles the envelope the send loop built from b.
HandlesEnvelopeOf(b) ==
  /\ sent[Len(sent)] = audio_message(b)
  /\ Receive(Wire(audio_message(b)))

\* C30: for every byte string b, the audio envelope the send loop builds
\* from b, when handled by the receive loop's audio branch, pushes exactly
\* b onto the playback queue (the envelope encode/decode is a round trip).
C30_EnvelopeRoundTrip ==
  /\ [](\A b \in LoopBytes :
          b64decode(GetData(Wire(audio_message(b)))) = [ok |-> TRUE, bytes |-> b])
  /\ [][\A b \in LoopBytes :
          WritesEnvelopeOf(b) => sent'[Len(sent')] = audio_message(b)]_vars
  /\ [][\A b \in LoopBytes :
          HandlesEnvelopeOf(b) =>
            audio_output_queue' =
              Append(audio_output_queue, [id |-> nInbound + 1, data |-> b])]_vars

\* The block 255, 0, 77 went out in an envelope and came back onto the
\* playback queue.
C30_Witness ==
  /\ Len(sent) = 2
  /\ sent[2] = audio_message(<< 255, 0, 77 >>)
  /\ nInbound = 1
  /\ audio_output_queue = << [id |-> 1, data |-> << 255, 0, 77 >>] >>

\* -------------------------------------------------------------------- C31
ExampleClient == variant = "example"

\* The listening window timed out: the step leaves asyncio.wait_for by
\* the caught TimeoutError.
WindowTimesOut == mainPc = "ex_listen" /\ mainPc' = "ex_stop"

\* The step is the write of the stop message after the window.
StopWriteStep == mainPc = "ex_stop" /\ mainPc' # mainPc

\* What holds of the example client whatever the channel does: no audio
\* message, a stop message only from the write that follows a timed-out
\* window after a ready handshake, and none after another first reply or
\* after the window was left by a closed channel or a raising message.
ExampleStopOnlyAfterTimeout ==
  /\ [](ExampleClient => AudioCount(sent) = 0)
  /\ [][(ExampleClient /\ StopCount(sent') # StopCount(sent)) =>
          (StopWriteStep /\ ready_data = READY /\ sent' = Append(sent, stop_message))]_vars
  /\ [][(ExampleClient /\ mainPc' = "ex_stop" /\ mainPc # "ex_stop") =>
          (WindowTimesOut /\ ready_data = READY)]_vars
  /\ []((ExampleClient /\ ready_data \notin {"none", READY}) => StopCount(sent) = 0)
  /\ [][(ExampleClient /\ mainPc = "ex_listen" /\ mainPc' = "exit") =>
          sent' = sent]_vars
  /\ []((ExampleClient /\ mainPc \in {"exit", "done"} /\ StopCount(sent) = 0) =>
          Len(sent) <= 1)

\* C31: the example client never writes an audio message, and it writes
\* a stop message exactly when the handshake returned ready and the
\* 10-second listening window timed out (the write that follows the
\* timeout appends one stop message on the open channel); if the first
\* reply is not ready, or the channel closes during the window (it is
\* closed when asyncio.wait_for has returned), no stop message is written.
C31_StopOnTimeout ==
  /\ ExampleStopOnlyAfterTimeout
  /\ [][(ExampleClient /\ StopWriteStep) =>
          StopCount(sent') = StopCount(sent) + (IF chan = "open" THEN 1 ELSE 0)]_vars
  /\ [](ExampleClient => StopCount(sent) <= 1)

\* The example client got ready, timed out on an open channel and wrote
\* its stop message.
C31_Witness ==
  /\ ExampleClient
  /\ ready_data = READY
  /\ mainPc = "done"
  /\ sent = << start_message, stop_message >>

\* -------------------------------------------------------------------- C32
\* The chunks the worker has dequeued, in the order they were enqueued.
Taken == SubSeq(enqueued, 1, Len(enqueued) - Len(sync_q))

\* What a run of the loop over the chunks cs writes: nothing for a chunk
\* of zero samples, the resampled samples for every other one.
RECURSIVE Played(_)
Played(cs) ==
  IF cs = << >> THEN << >>
  ELSE IF Len(frombuffer(Head(cs))) = 0 THEN Played(Tail(cs))
  ELSE << resample_step(frombuffer(Head(cs)), in_rate, out_rate) >>
         \o Played(Tail(cs))

WorkerExited == workerPc \in {"done", "crashed"}

\* The worker takes a chunk from its queue.
Dequeues == Len(sync_q') < Len(sync_q)

\* The queue is first-in first-out and the writes follow it: the stream
\* got the dequeued chunks in order, without those of zero samples (and
\* without the chunk on which a raising call ended the thread).
WritesInOrder ==
  /\ sync_q = SubSeq(enqueued, Len(Taken) + 1, Len(enqueued))
  /\ stream = Played(IF workerPc = "crashed"
                       THEN FirstN(Taken, Len(Taken) - 1) ELSE Taken)

\* C32: in the quickstart playback worker chunks are written to the output
\* stream in the order they were enqueued, zero-length chunks are skipped
\* without a write, and once terminate() has set the ended flag the worker
\* loop performs at most one further dequeue-and-write (the one of a get
\* already entered: the next loop test leaves the loop) and then exits; it
\* terminates even if no more chunks arrive.
C32_WorkerOrderAndExit ==
  /\ [](WritesInOrder)
  /\ [][(Dequeues /\ Head(sync_q) = << >>) =>
          (stream' = stream /\ workerPc' = "test")]_vars
  /\ [][(ended /\ Dequeues) =>
          (workerPc = "get" /\ workerPc' \in {"test", "crashed"}
             /\ Len(stream') <= Len(stream) + 1)]_vars
  /\ [][(ended /\ workerPc = "test") => workerPc' \in {"test", "done"}]_vars
  /\ [][WorkerExited =>
          (workerPc' = workerPc /\ stream' = stream /\ ~Dequeues)]_vars
  /\ (ended ~> WorkerExited)

\* The worker played the silence, skipped an empty chunk, played a
\* one-sample chunk, and left its loop after terminate().
C32_Witness ==
  /\ enqueued = << InitialSilence, << >>, <<1, 0>> >>
  /\ sync_q = << >>
  /\ Len(stream) = 2
  /\ ended
  /\ workerPc = "done"

\* -------------------------------------------------------------------- C33
\* The selection is over: Settings() is about to run or has run.
Selected == envPc \in {"settings", "loaded", "failed"} /\ etc_file # "directory"

\* The priority among the candidates.
PriorityOrder ==
  /\ etc_file = "readable" => ENV_FILE = ETC_ENV
  /\ (etc_file = "absent" /\ script_env) => ENV_FILE = SCRIPT_ENV
  /\ (etc_file = "absent" /\ ~script_env /\ cwd_env) => ENV_FILE = CWD_ENV
  /\ (etc_file = "absent" /\ ~script_env /\ ~cwd_env) => ENV_FILE = "None"

\* C33 as the specification states it: the quickstart selects its .env
\* file by priority /etc/vocode/.env, then .env in the script directory,
\* then .env in the current directory; when /etc/vocode/.env exists but
\* cannot be read, no .env file is used (ENV_FILE is None) and settings
\* come from environment variables only.
C33_EnvFilePriority ==
  Selected =>
    /\ PriorityOrder
    /\ etc_file = "unreadable" =>
         /\ ENV_FILE = "None"
         /\ settings_from \in {"unset", "env"}

====
